---- MODULE Spec2Model ----
(***************************************************************************)
(* A model of the `just` interpreter: Lexer (src/src/lexer.rs), Parser     *)
(* (src/src/parser.rs), Environment (src/src/environment.rs) and           *)
(* Interpreter (src/src/interpreter.rs), driven as main.rs drives them:    *)
(* tokenize, then parse, then interpret.                                   *)
(*                                                                         *)
(* Source text is a sequence of one-character strings (ASCII, so a byte    *)
(* offset and a character index coincide).  Option<T> is a sequence of     *)
(* length 0 (None) or 1 (Some).  f64 numbers are exact rationals           *)
(* [num, den] with den > 0; den = 0 encodes NaN (num = 0) and the          *)
(* infinities (num = 1, -1).                                               *)
(***************************************************************************)
EXTENDS Integers, Sequences, FiniteSets, TLC

VARIABLES
    pc,           \* where main is: "lex", "parse", "run", "done", "panic"
    lexer,        \* struct Lexer
    parser,       \* struct Parser
    statements,   \* the Vec<Statement> parse() builds and interpret() consumes
    interpreter,  \* struct Interpreter
    index,        \* position of interpret's for loop in statements
    last_value,   \* interpret's local last_value
    result,       \* what parse / interpret returned, or the panic message
    void_arm      \* outcome of the Literal arm the code does not have (Void)

vars == <<pc, lexer, parser, statements, interpreter, index, last_value, result, void_arm>>

None == << >>
Some(x) == <<x>>

(***************************************************************************)
(* Characters                                                              *)
(***************************************************************************)
Digit == {"0", "1", "2", "3", "4", "5", "6", "7", "8", "9"}

Lower == {"a", "b", "c", "d", "e", "f", "g", "h", "i", "j", "k", "l", "m",
          "n", "o", "p", "q", "r", "s", "t", "u", "v", "w", "x", "y", "z"}

Upper == {"A", "B", "C", "D", "E", "F", "G", "H", "I", "J", "K", "L", "M",
          "N", "O", "P", "Q", "R", "S", "T", "U", "V", "W", "X", "Y", "Z"}

\* 'a'..='z' | 'A'..='Z' | '_'
IdentStart == Lower \cup Upper \cup {"_"}

\* char::is_alphanumeric() || c == '_'
IdentPart == Lower \cup Upper \cup Digit \cup {"_"}

NL == "\n"
QUOTE == "\""

DigitValue(c) ==
    CASE c = "0" -> 0 [] c = "1" -> 1 [] c = "2" -> 2 [] c = "3" -> 3
      [] c = "4" -> 4 [] c = "5" -> 5 [] c = "6" -> 6 [] c = "7" -> 7
      [] c = "8" -> 8 [] c = "9" -> 9

(***************************************************************************)
(* f64 as exact rationals                                                  *)
(***************************************************************************)
Abs(n) == IF n < 0 THEN -n ELSE n

RECURSIVE Gcd(_, _)
Gcd(a, b) == IF b = 0 THEN a ELSE Gcd(b, a % b)

RECURSIVE Pow(_, _)
Pow(b, e) == IF e = 0 THEN 1 ELSE b * Pow(b, e - 1)

\* the rational n/d in lowest terms, d # 0
Rat(n, d) ==
    LET g == Gcd(Abs(n), Abs(d))
        s == IF d < 0 THEN -1 ELSE 1
    IN  [num |-> (s * n) \div g, den |-> (s * d) \div g]

Int2F(n) == [num |-> n, den |-> 1]
NaN == [num |-> 0, den |-> 0]
Infinity(sign) == [num |-> sign, den |-> 0]
IsFinite(x) == x.den # 0
IsNaN(x) == x.den = 0 /\ x.num = 0
Sign(x) == IF x.num > 0 THEN 1 ELSE IF x.num < 0 THEN -1 ELSE 0

\* str::parse::<f64>() on a text of digits and '.' that starts with a digit:
\* Err when it holds more than one '.', else the decimal value
RECURSIVE DecimalDigits(_, _, _)
DecimalDigits(text, i, acc) ==
    IF i > Len(text) THEN acc
    ELSE IF text[i] = "." THEN DecimalDigits(text, i + 1, acc)
    ELSE DecimalDigits(text, i + 1, 10 * acc + DigitValue(text[i]))

ParseF64(text) ==
    LET dots == {i \in 1..Len(text) : text[i] = "."}
    IN  IF Cardinality(dots) > 1 THEN None
        ELSE IF dots = {} THEN Some(Int2F(DecimalDigits(text, 1, 0)))
        ELSE LET d == CHOOSE i \in dots : TRUE
             IN  Some(Rat(DecimalDigits(text, 1, 0), Pow(10, Len(text) - d)))

(***************************************************************************)
(* Lexer (src/src/lexer.rs)                                                *)
(***************************************************************************)
\* TokenType: [k |-> variant] or [k |-> variant, v |-> payload]
TT(k) == [k |-> k]
TTV(k, v) == [k |-> k, v |-> v]

\* &source[a..b]
Slice(source, a, b) == SubSeq(source, a + 1, b)

Lexer_new(source) ==
    [source |-> source, tokens |-> << >>, line |-> 1, current |-> 0,
     start |-> 0, col |-> 1]

Lexer_is_at_end(lx) == lx.current >= Len(lx.source)

Lexer_peek(lx) ==
    IF lx.current + 1 <= Len(lx.source) THEN Some(lx.source[lx.current + 1]) ELSE None

Lexer_advance(lx) == [lx EXCEPT !.current = @ + 1]

advance_line(lx) == [lx EXCEPT !.line = @ + 1, !.col = 1]

\* add_token recording the offset of the token's last character as end_pos
add_token_short(lx, ttype) ==
    [lx EXCEPT !.tokens = Append(@,
        [ttype |-> ttype,
         lexeme |-> Slice(lx.source, lx.start, lx.current),
         col |-> lx.col,
         line |-> lx.line,
         start_pos |-> lx.start,
         end_pos |-> lx.current - 1])]

add_token(lx, ttype) ==
    [lx EXCEPT !.tokens = Append(@,
        [ttype |-> ttype,
         lexeme |-> Slice(lx.source, lx.start, lx.current),
         col |-> lx.col,
         line |-> lx.line,
         start_pos |-> lx.start,
         end_pos |-> lx.current])]

\* a step of the scanner: the lexer after it, or the panic that ended it
Scanned(lx) == [lx |-> lx, panic |-> None]
Panicked(lx, msg) == [lx |-> lx, panic |-> Some(msg)]

RECURSIVE number_loop(_)
number_loop(lx) ==
    LET c == Lexer_peek(lx)
    IN  IF c # None /\ c[1] \in Digit \cup {"."} THEN number_loop(Lexer_advance(lx))
        ELSE lx

number(lx0) ==
    LET lx == number_loop(lx0)
        value == ParseF64(Slice(lx.source, lx.start, lx.current))
    IN  IF value # None THEN Scanned(add_token(lx, TTV("Number", value[1])))
        ELSE Panicked(lx, "Failed to parse number")

RECURSIVE string_loop(_)
string_loop(lx) ==
    LET c == Lexer_peek(lx)
    IN  IF c # None /\ ~(c[1] = QUOTE \/ Lexer_is_at_end(lx))
        THEN string_loop(Lexer_advance(lx))
        ELSE lx

string(lx0) ==
    LET lx == string_loop(lx0)
    IN  IF Lexer_is_at_end(lx) THEN Panicked(lx, "Unterminated string")
        ELSE LET closed == Lexer_advance(lx)
                 value == Slice(closed.source, closed.start + 1, closed.current - 1)
             IN  Scanned(add_token(closed, TTV("String", value)))

RECURSIVE identifier_loop(_)
identifier_loop(lx) ==
    LET c == Lexer_peek(lx)
    IN  IF c # None /\ c[1] \in IdentPart THEN identifier_loop(Lexer_advance(lx))
        ELSE lx

Keyword(text) ==
    CASE text = <<"f", "u", "n", "c", "t", "i", "o", "n">> -> TT("Function")
      [] text = <<"l", "e", "t">> -> TT("Let")
      [] text = <<"c", "o", "n", "s", "t">> -> TT("Const")
      [] text = <<"v", "a", "r">> -> TT("Var")
      [] text = <<"r", "e", "t", "u", "r", "n">> -> TT("Return")
      [] text = <<"i", "f">> -> TT("If")
      [] text = <<"e", "l", "s", "e">> -> TT("Else")
      [] text = <<"f", "o", "r">> -> TT("For")
      [] text = <<"w", "h", "i", "l", "e">> -> TT("While")
      [] text = <<"b", "r", "e", "a", "k">> -> TT("Break")
      [] text = <<"c", "o", "n", "t", "i", "n", "u", "e">> -> TT("Continue")
      [] text = <<"t", "h", "r", "o", "w">> -> TT("Throw")
      [] text = <<"t", "y", "p", "e", "o", "f">> -> TT("Typeof")
      [] text = <<"n", "u", "l", "l">> -> TT("Null")
      [] text = <<"t", "r", "u", "e">> -> TTV("Boolean", TRUE)
      [] text = <<"f", "a", "l", "s", "e">> -> TTV("Boolean", FALSE)
      [] OTHER -> TTV("Identifier", text)

identifier(lx0) ==
    LET lx == identifier_loop(lx0)
    IN  add_token(lx, Keyword(Slice(lx.source, lx.start, lx.current)))

RECURSIVE comment_loop(_)
comment_loop(lx) ==
    LET c == Lexer_peek(lx)
    IN  IF c # None /\ c[1] # NL THEN comment_loop(Lexer_advance(lx))
        ELSE lx

comment(lx0) ==
    LET lx == comment_loop(lx0)
    IN  add_token(lx, TTV("LineComment", Slice(lx.source, lx.start, lx.current)))

\* the arms '*', '=', '!', '<', '>': `second` completes the two-character
\* operator `long`; any other next character gives `short`; at the end of the
\* source no token is added
two_char(lx, second, long, short) ==
    LET n == Lexer_peek(lx)
    IN  IF n = None THEN lx
        ELSE IF n[1] = second THEN add_token(Lexer_advance(lx), TT(long))
        ELSE add_token(lx, TT(short))

\* the arms '&' and '|': a token only when the character is doubled
doubled(lx, c, long) ==
    LET n == Lexer_peek(lx)
    IN  IF n # None /\ n[1] = c THEN add_token(Lexer_advance(lx), TT(long))
        ELSE lx

slash(lx) ==
    LET n == Lexer_peek(lx)
    IN  IF n = None THEN lx
        ELSE IF n[1] = "/" THEN comment(lx)
        ELSE add_token(lx, TT("Slash"))

\* the match on c in tokenize's loop body
match_char(lx, c) ==
    CASE c = "(" -> Scanned(add_token(lx, TT("LParen")))
      [] c = ")" -> Scanned(add_token(lx, TT("RParen")))
      [] c = "{" -> Scanned(add_token(lx, TT("LBrace")))
      [] c = "}" -> Scanned(add_token(lx, TT("RBrace")))
      [] c = "[" -> Scanned(add_token(lx, TT("LBracket")))
      [] c = "]" -> Scanned(add_token(lx, TT("RBracket")))
      [] c = "." -> Scanned(add_token(lx, TT("Dot")))
      [] c = "," -> Scanned(add_token(lx, TT("Comma")))
      [] c = ";" -> Scanned(add_token(lx, TT("SemiColon")))
      [] c = ":" -> Scanned(add_token(lx, TT("Colon")))
      [] c = "+" -> Scanned(add_token(lx, TT("Plus")))
      [] c = "-" -> Scanned(add_token(lx, TT("Minus")))
      [] c = "*" -> Scanned(two_char(lx, "*", "Power", "Star"))
      [] c = "/" -> Scanned(slash(lx))
      [] c = "%" -> Scanned(add_token(lx, TT("Percent")))
      [] c = "=" -> Scanned(two_char(lx, "=", "EqualEqual", "Equal"))
      [] c = "!" -> Scanned(two_char(lx, "=", "BangEqual", "Bang"))
      [] c = "&" -> Scanned(doubled(lx, "&", "And"))
      [] c = "|" -> Scanned(doubled(lx, "|", "Or"))
      [] c = "?" -> Scanned(add_token(lx, TT("Question")))
      [] c = "<" -> Scanned(two_char(lx, "=", "LesserEqual", "Lesser"))
      [] c = ">" -> Scanned(two_char(lx, "=", "GreaterEqual", "Greater"))
      [] c \in {" ", "\r", "\t"} -> Scanned(lx)
      [] c = NL -> Scanned(advance_line(lx))
      [] c \in Digit -> number(lx)
      [] c = QUOTE -> string(lx)
      [] c \in IdentStart -> Scanned(identifier(lx))
      [] OTHER -> Panicked(lx, "Unexpected character")

\* one iteration of tokenize's while loop
tokenize_step(lx0) ==
    LET started == [lx0 EXCEPT !.start = lx0.current]
        c == Lexer_peek(started)[1]
        r == match_char(Lexer_advance(started), c)
    IN  IF r.panic # None THEN r
        ELSE Scanned([r.lx EXCEPT !.col = @ + 1])

\* after the loop: the end-of-input token
tokenize_end(lx) == add_token(lx, TT("Eof"))

RECURSIVE tokenize_from(_)
tokenize_from(lx) ==
    IF Lexer_is_at_end(lx) THEN Scanned(tokenize_end(lx))
    ELSE LET r == tokenize_step(lx)
         IN  IF r.panic # None THEN r ELSE tokenize_from(r.lx)

\* Lexer::new(source).tokenize()
tokenize(source) == tokenize_from(Lexer_new(source))

(***************************************************************************)
(* AST (src/src/ast.rs)                                                    *)
(***************************************************************************)
LitNumber(n) == [l |-> "Number", v |-> n]
LitString(t) == [l |-> "String", v |-> t]
LitBoolean(b) == [l |-> "Boolean", v |-> b]
LitNull == [l |-> "Null"]
LitVoid == [l |-> "Void"]

Literal(lit) == [e |-> "Literal", literal |-> lit]
Unary(operator, right) == [e |-> "Unary", operator |-> operator, right |-> right]
Binary(left, operator, right) ==
    [e |-> "Binary", left |-> left, operator |-> operator, right |-> right]
Grouping(inner) == [e |-> "Grouping", inner |-> inner]
Variable(name) == [e |-> "Variable", name |-> name]
Assignment(name, value) == [e |-> "Assignment", name |-> name, value |-> value]
Call(callee, arguments) == [e |-> "Call", callee |-> callee, arguments |-> arguments]

ExpressionStatement(expr) == [s |-> "Expression", expr |-> expr]
VariableDeclaration(name, initializer, can_reassign) ==
    [s |-> "VariableDeclaration", name |-> name, initializer |-> initializer,
     can_reassign |-> can_reassign]
FunctionDeclaration(name, parameters, body) ==
    [s |-> "FunctionDeclaration", name |-> name, parameters |-> parameters,
     body |-> body]
Block(stmts) == [s |-> "Block", statements |-> stmts]
Return(value) == [s |-> "Return", value |-> value]

(***************************************************************************)
(* Parser (src/src/parser.rs)                                              *)
(* Every parsing method is an operator from the parser (tokens, current)   *)
(* to the parser after it and the Result it returned.                      *)
(***************************************************************************)
Parser_new(tokens) == [tokens |-> tokens, current |-> 0]

POk(p, v) == [p |-> p, st |-> "ok", v |-> v]
\* Err(format!(...)): the message's fixed text and the token it names
PErr(p, msg, token) ==
    [p |-> p, st |-> "err",
     v |-> [msg |-> msg, lexeme |-> token.lexeme, line |-> token.line, col |-> token.col]]

\* the ? operator: r's error is returned, its Ok value goes on to Then
Try(r, Then(_)) == IF r.st # "ok" THEN r ELSE Then(r)

Parser_peek(p) == p.tokens[p.current + 1]

Parser_is_at_end(p) == Parser_peek(p).ttype.k = "Eof"

peek_next(p) ==
    IF Parser_is_at_end(p) THEN p.tokens[p.current + 1] ELSE p.tokens[p.current + 2]

Parser_advance(p) ==
    IF ~Parser_is_at_end(p) THEN [p EXCEPT !.current = @ + 1] ELSE p

\* Ok(()) or the error
check(p, expected, expected_lexeme) ==
    IF Parser_peek(p).ttype.k # expected
    THEN PErr(p, "Unexpected token, expected", Parser_peek(p))
    ELSE POk(p, << >>)

EqualityOps == {"EqualEqual", "BangEqual"}
ComparisonOps == {"Greater", "GreaterEqual", "Lesser", "LesserEqual"}
TermOps == {"Plus", "Minus"}
FactorOps == {"Slash", "Star", "Power", "Percent"}

RECURSIVE statement(_), variable_declaration(_, _), block(_), block_loop(_, _),
          function_declaration(_), expression(_), equality(_), comparison(_),
          term(_), factor(_), binary_loop(_, _, _, _), unary(_), primary(_),
          call_arguments(_, _)

\* the loop of a tier taking only a unary expression as the right operand
\* and looking at the token after it for the next operator
binary_loop_tight(p, left, ops, next_ttype) ==
    IF next_ttype.k \in ops
    THEN Try(unary(Parser_advance(Parser_advance(p))),
             LAMBDA r : binary_loop(r.p,
                                    Binary(left, Parser_peek(Parser_advance(p)).ttype, r.v),
                                    ops, peek_next(r.p).ttype))
    ELSE POk(p, left)

\* the while loop shared by equality, comparison, term and factor: next_ttype
\* is peek_next() before the first iteration and peek() after each one; the
\* operator is the token after the first advance, the right operand a whole
\* expression after the second
binary_loop(p, left, ops, next_ttype) ==
    IF next_ttype.k \in ops
    THEN Try(expression(Parser_advance(Parser_advance(p))),
             LAMBDA r : binary_loop(r.p,
                                    Binary(left, Parser_peek(Parser_advance(p)).ttype, r.v),
                                    ops, Parser_peek(r.p).ttype))
    ELSE POk(p, left)

\* the while loop of the call arm of primary; p1 is the parser after the
\* loop body's first advance
call_argument(p1, args) ==
    IF Parser_peek(p1).ttype.k # "Comma" /\ Parser_is_at_end(p1)
    THEN PErr(p1, "You must close function call with ')'", Parser_peek(p1))
    ELSE Try(expression(IF Parser_peek(p1).ttype.k = "Comma"
                        THEN Parser_advance(p1) ELSE p1),
             LAMBDA r : call_arguments(r.p, Append(args, r.v)))

call_arguments(p, args) ==
    IF peek_next(p).ttype.k # "RParen"
    THEN call_argument(Parser_advance(p), args)
    ELSE POk(p, args)

\* the LParen arm of primary, once the inner expression is parsed
grouping(r) ==
    IF peek_next(r.p).ttype.k = "RParen"
    THEN POk(Parser_advance(r.p), Grouping(r.v))
    ELSE PErr(r.p, "Unexpected token, Expected ')'", peek_next(r.p))

\* the Identifier arm of primary
identifier_primary(p, name) ==
    CASE peek_next(p).ttype.k = "Equal" ->
            Try(expression(Parser_advance(Parser_advance(p))),
                LAMBDA r : POk(r.p, Assignment(name, r.v)))
      [] peek_next(p).ttype.k = "LParen" ->
            Try(call_arguments(Parser_advance(p), << >>),
                LAMBDA r : POk(Parser_advance(r.p), Call(Variable(name), r.v)))
      [] OTHER -> POk(p, Variable(name))

\* primary taking a LineComment token for an empty expression, as it takes
\* Eof
primary_token_lenient(p, token) ==
    CASE token.ttype.k = "Number" -> POk(p, Literal(LitNumber(token.ttype.v)))
      [] token.ttype.k = "String" -> POk(p, Literal(LitString(token.ttype.v)))
      [] token.ttype.k = "Null" -> POk(p, Literal(LitNull))
      [] token.ttype.k = "Boolean" -> POk(p, Literal(LitBoolean(token.ttype.v)))
      [] token.ttype.k = "LParen" ->
            Try(expression(Parser_advance(p)), LAMBDA r : grouping(r))
      [] token.ttype.k = "Identifier" -> identifier_primary(p, token.ttype.v)
      [] token.ttype.k \in {"Eof", "LineComment"} -> POk(p, Literal(LitVoid))
      [] OTHER -> PErr(p, "Unexpected token", token)

primary_token(p, token) ==
    CASE token.ttype.k = "Number" -> POk(p, Literal(LitNumber(token.ttype.v)))
      [] token.ttype.k = "String" -> POk(p, Literal(LitString(token.ttype.v)))
      [] token.ttype.k = "Null" -> POk(p, Literal(LitNull))
      [] token.ttype.k = "Boolean" -> POk(p, Literal(LitBoolean(token.ttype.v)))
      [] token.ttype.k = "LParen" ->
            Try(expression(Parser_advance(p)), LAMBDA r : grouping(r))
      [] token.ttype.k = "Identifier" -> identifier_primary(p, token.ttype.v)
      [] token.ttype.k = "Eof" -> POk(p, Literal(LitVoid))
      [] OTHER -> PErr(p, "Unexpected token", token)

primary(p) == primary_token(p, Parser_peek(p))

unary(p) ==
    CASE Parser_peek(p).ttype.k = "Minus" ->
            Try(expression(Parser_advance(p)), LAMBDA r : POk(r.p, Unary("-", r.v)))
      [] Parser_peek(p).ttype.k = "Bang" ->
            Try(expression(Parser_advance(p)), LAMBDA r : POk(r.p, Unary("!", r.v)))
      [] OTHER -> primary(p)

factor(p) ==
    Try(unary(p), LAMBDA l : binary_loop(l.p, l.v, FactorOps, peek_next(l.p).ttype))

term(p) ==
    Try(factor(p), LAMBDA l : binary_loop(l.p, l.v, TermOps, peek_next(l.p).ttype))

comparison(p) ==
    Try(term(p), LAMBDA l : binary_loop(l.p, l.v, ComparisonOps, peek_next(l.p).ttype))

equality(p) ==
    Try(comparison(p),
        LAMBDA l : binary_loop(l.p, l.v, EqualityOps, peek_next(l.p).ttype))

expression(p) == equality(p)

\* variable_declaration once the name is read; p2 is the parser after the
\* advance past the name
initializer(p2, name, can_reassign) ==
    IF Parser_peek(p2).ttype.k = "Equal"
    THEN Try(expression(Parser_advance(p2)),
             LAMBDA r : POk(r.p, VariableDeclaration(name, Some(r.v), can_reassign)))
    ELSE POk(p2, VariableDeclaration(name, None, can_reassign))

variable_declaration(p, can_reassign) ==
    IF Parser_peek(Parser_advance(p)).ttype.k # "Identifier"
    THEN PErr(Parser_advance(p), "Invalid variable name", Parser_peek(Parser_advance(p)))
    ELSE initializer(Parser_advance(Parser_advance(p)),
                     Parser_peek(Parser_advance(p)).ttype.v, can_reassign)

\* the loop of block
block_loop(p, stmts) ==
    IF Parser_is_at_end(p)
    THEN PErr(p, "You must close function block with '}'", Parser_peek(p))
    ELSE Try(statement(p),
             LAMBDA r : IF peek_next(r.p).ttype.k = "RBrace"
                        THEN POk(Parser_advance(r.p), Block(Append(stmts, r.v)))
                        ELSE block_loop(Parser_advance(r.p), Append(stmts, r.v)))

block(p) ==
    Try(check(p, "LBrace", "{"), LAMBDA c : block_loop(Parser_advance(p), << >>))

\* the parameter loop of function_declaration
RECURSIVE parameter_loop(_, _)
parameter_loop(p, params) ==
    CASE Parser_peek(p).ttype.k = "Identifier" ->
            parameter_loop(Parser_advance(p), Append(params, Parser_peek(p).ttype.v))
      [] Parser_peek(p).ttype.k = "RParen" -> POk(Parser_advance(p), params)
      [] Parser_peek(p).ttype.k = "Comma" -> parameter_loop(Parser_advance(p), params)
      [] OTHER -> PErr(p, "Syntax Error expected )", Parser_peek(p))

\* function_declaration once the name is read; p2 is the parser after the
\* advance past the name
function_rest(p2, name) ==
    Try(check(p2, "LParen", "("), LAMBDA c :
    Try(parameter_loop(Parser_advance(p2), << >>), LAMBDA ps :
    Try(check(ps.p, "LBrace", "{"), LAMBDA c2 :
    Try(block(ps.p), LAMBDA b :
        POk(b.p, FunctionDeclaration(name, ps.v, b.v.statements))))))

function_declaration(p) ==
    IF Parser_peek(Parser_advance(p)).ttype.k # "Identifier"
    THEN PErr(Parser_advance(p), "Invalid variable name", Parser_peek(Parser_advance(p)))
    ELSE function_rest(Parser_advance(Parser_advance(p)),
                       Parser_peek(Parser_advance(p)).ttype.v)

\* the Return arm of statement; p1 is the parser after the advance
return_statement(p1) ==
    CASE Parser_peek(p1).ttype.k = "SemiColon" -> POk(p1, Return(None))
      [] Parser_peek(p1).ttype.k = "RBrace" ->
            POk([p1 EXCEPT !.current = @ - 1], Return(None))
      [] OTHER -> Try(expression(p1), LAMBDA r : POk(r.p, Return(Some(r.v))))

statement(p) ==
    CASE Parser_peek(p).ttype.k \in {"Let", "Var"} -> variable_declaration(p, TRUE)
      [] Parser_peek(p).ttype.k = "Const" -> variable_declaration(p, FALSE)
      [] Parser_peek(p).ttype.k = "LBrace" -> block(p)
      [] Parser_peek(p).ttype.k = "Function" -> function_declaration(p)
      [] Parser_peek(p).ttype.k = "Return" -> return_statement(Parser_advance(p))
      [] Parser_peek(p).ttype.k = "SemiColon" ->
            POk(p, ExpressionStatement(Literal(LitVoid)))
      [] OTHER -> Try(expression(p), LAMBDA r : POk(r.p, ExpressionStatement(r.v)))

\* one iteration of parse's while loop: statements.push(self.statement()?);
\* self.advance()
parse_step(p, stmts) ==
    Try(statement(p), LAMBDA r : POk(Parser_advance(r.p), Append(stmts, r.v)))

RECURSIVE parse_from(_, _)
parse_from(p, stmts) ==
    IF Parser_is_at_end(p) THEN POk(p, stmts)
    ELSE Try(parse_step(p, stmts), LAMBDA r : parse_from(r.p, r.v))

\* Parser::new(tokens).parse()
parse(tokens) == parse_from(Parser_new(tokens), << >>)

(***************************************************************************)
(* f64 arithmetic                                                          *)
(***************************************************************************)
F_neg(a) == [num |-> -a.num, den |-> a.den]

\* a + b
F_add(a, b) ==
    IF IsNaN(a) \/ IsNaN(b) THEN NaN
    ELSE IF ~IsFinite(a) /\ ~IsFinite(b) THEN (IF a.num = b.num THEN a ELSE NaN)
    ELSE IF ~IsFinite(a) THEN a
    ELSE IF ~IsFinite(b) THEN b
    ELSE Rat(a.num * b.den + b.num * a.den, a.den * b.den)

\* a - b
F_sub(a, b) == F_add(a, F_neg(b))

\* a * b
F_mul(a, b) ==
    IF IsNaN(a) \/ IsNaN(b) THEN NaN
    ELSE IF ~IsFinite(a) \/ ~IsFinite(b)
    THEN (IF Sign(a) = 0 \/ Sign(b) = 0 THEN NaN ELSE Infinity(Sign(a) * Sign(b)))
    ELSE Rat(a.num * b.num, a.den * b.den)

\* a / b (a zero divisor is +0.0: the model has one zero)
F_div(a, b) ==
    IF IsNaN(a) \/ IsNaN(b) THEN NaN
    ELSE IF ~IsFinite(a) /\ ~IsFinite(b) THEN NaN
    ELSE IF ~IsFinite(a) THEN Infinity(Sign(a) * (IF Sign(b) < 0 THEN -1 ELSE 1))
    ELSE IF ~IsFinite(b) THEN Int2F(0)
    ELSE IF Sign(b) = 0 THEN (IF Sign(a) = 0 THEN NaN ELSE Infinity(Sign(a)))
    ELSE Rat(a.num * b.den, a.den * b.num)

\* the integer part of n/d, rounded toward zero
Trunc(n, d) == Sign(Int2F(n)) * Sign(Int2F(d)) * (Abs(n) \div Abs(d))

\* a % b (fmod: the result has the sign of a)
F_rem(a, b) ==
    IF IsNaN(a) \/ IsNaN(b) \/ ~IsFinite(a) \/ Sign(b) = 0 THEN NaN
    ELSE IF ~IsFinite(b) THEN a
    ELSE F_sub(a, F_mul(b, Int2F(Trunc(a.num * b.den, a.den * b.num))))

\* a.powf(b), for finite a and a finite integral exponent b; other operands
\* are outside the modelled range and no case covers them
F_powf(a, b) ==
    CASE IsFinite(a) /\ IsFinite(b) /\ b.den = 1 /\ b.num >= 0 ->
            Rat(Pow(a.num, b.num), Pow(a.den, b.num))
      [] IsFinite(a) /\ IsFinite(b) /\ b.den = 1 /\ b.num < 0 /\ Sign(a) # 0 ->
            Rat(Pow(a.den, -b.num), Pow(a.num, -b.num))
      [] IsFinite(a) /\ IsFinite(b) /\ b.den = 1 /\ b.num < 0 /\ Sign(a) = 0 ->
            Infinity(1)

(***************************************************************************)
(* Value and Environment (src/src/environment.rs)                          *)
(***************************************************************************)
VNumber(n) == [t |-> "Number", v |-> n]
VString(x) == [t |-> "String", v |-> x]
VBoolean(b) == [t |-> "Boolean", v |-> b]
VNull == [t |-> "Null"]
\* Value::Function(Box::new(FunctionExpression::new(parameters, body)))
VFunction(parameters, body) ==
    [t |-> "Function", parameters |-> parameters, body |-> body]

Environment_new == [values |-> << >>, parent |-> None]

with_parent(parent) == [values |-> << >>, parent |-> Some(parent)]

\* HashMap::insert
define(env, name, value) == [env EXCEPT !.values = (name :> value) @@ @]

RECURSIVE get(_, _)
get(env, name) ==
    IF name \in DOMAIN env.values THEN Some(env.values[name])
    ELSE IF env.parent # None THEN get(env.parent[1], name)
    ELSE None

RECURSIVE assign(_, _, _)

\* assign replacing the value in every scope that defines the name
assign_everywhere(env, name, value) ==
    IF env.parent # None
    THEN [env |-> [env EXCEPT
                     !.values = IF name \in DOMAIN @ THEN (name :> value) @@ @ ELSE @,
                     !.parent = Some(assign(env.parent[1], name, value).env)],
          ok |-> name \in DOMAIN env.values \/ assign(env.parent[1], name, value).ok]
    ELSE [env |-> [env EXCEPT
                     !.values = IF name \in DOMAIN @ THEN (name :> value) @@ @ ELSE @],
          ok |-> name \in DOMAIN env.values]

\* the environment after the call, and whether it returned Ok
assign(env, name, value) ==
    IF name \in DOMAIN env.values
    THEN [env |-> [env EXCEPT !.values = (name :> value) @@ @], ok |-> TRUE]
    ELSE IF env.parent # None
    THEN LET r == assign(env.parent[1], name, value)
         IN  [env |-> [env EXCEPT !.parent = Some(r.env)], ok |-> r.ok]
    ELSE [env |-> env, ok |-> FALSE]

(***************************************************************************)
(* Interpreter (src/src/interpreter.rs)                                    *)
(* evaluate and execute are operators from (node, self.environment) to the *)
(* environment they leave behind and what they returned: st = "ok" with    *)
(* the value, "err" with the message, or "panic".                          *)
(***************************************************************************)
Interpreter_new == [environment |-> Environment_new]

Ok(env, v) == [env |-> env, st |-> "ok", v |-> v]
Err(env, msg) == [env |-> env, st |-> "err", v |-> [msg |-> msg]]
\* Err(format!("{} is not a function", var_name))
NotAFunction(env, var_name) ==
    [env |-> env, st |-> "err", v |-> [msg |-> "is not a function", value |-> var_name]]
Panic(env, msg) == [env |-> env, st |-> "panic", v |-> [msg |-> msg]]

\* the match on Literal in evaluate has no arm for Literal::Void: what it
\* does there is not fixed by the source; the model draws it once, when the
\* interpreter is constructed, from the results evaluate's type allows
VoidArms == {[st |-> "err", v |-> [msg |-> "Expression is not implemented yet"]],
             [st |-> "ok", v |-> VNull]}

is_truthy(value) ==
    CASE value.t = "Number" -> value.v.num > 0
      [] value.t = "String" -> Len(value.v) > 0
      [] value.t = "Boolean" -> value.v
      [] value.t = "Null" -> FALSE
      [] value.t = "Function" -> TRUE

enter_scope(env) == with_parent(env)

\* exit_scope moving the scope's own bindings into the parent it returns to
exit_scope_keeping(env) ==
    IF env.parent # None
    THEN Some([env.parent[1] EXCEPT !.values = env.values @@ @])
    ELSE None

\* None stands for the panic "Cannot exit from the global scope"
exit_scope(env) == IF env.parent # None THEN Some(env.parent[1]) ELSE None

\* the Slash arm without its test of the divisor
divide_unchecked(env, a, b) == Ok(env, VNumber(F_div(a, b)))

\* the Slash arm
divide(env, a, b) ==
    IF IsFinite(b) /\ b.num = 0 THEN Err(env, "Division by zero")
    ELSE Ok(env, VNumber(F_div(a, b)))

\* the match (operator, left, right) of the Binary arm
binary(env, operator, left, right) ==
    IF left.t = "Number" /\ right.t = "Number"
    THEN CASE operator.k = "Plus" -> Ok(env, VNumber(F_add(left.v, right.v)))
           [] operator.k = "Minus" -> Ok(env, VNumber(F_sub(left.v, right.v)))
           [] operator.k = "Star" -> Ok(env, VNumber(F_mul(left.v, right.v)))
           [] operator.k = "Power" -> Ok(env, VNumber(F_powf(left.v, right.v)))
           [] operator.k = "Percent" -> Ok(env, VNumber(F_rem(left.v, right.v)))
           [] operator.k = "Slash" -> divide(env, left.v, right.v)
           [] OTHER -> Err(env, "Invalid binary operation")
    ELSE Err(env, "Invalid binary operation")

\* the Literal arm
literal_value(env, literal) ==
    CASE literal.l = "Number" -> Ok(env, VNumber(literal.v))
      [] literal.l = "String" -> Ok(env, VString(literal.v))
      [] literal.l = "Boolean" -> Ok(env, VBoolean(literal.v))
      [] literal.l = "Null" -> Ok(env, VNull)
      [] literal.l = "Void" -> [env |-> env, st |-> void_arm.st, v |-> void_arm.v]

\* the Unary arm, given the operand's value
unary_value(env, operator, value) ==
    IF operator = "!" THEN Ok(env, VBoolean(~is_truthy(value)))
    ELSE Ok(env, VNumber(IF value.t = "Number" THEN F_mul(value.v, Int2F(-1))
                         ELSE Int2F(-1)))

RECURSIVE evaluate(_, _), execute(_, _), bind_arguments(_, _, _, _),
          run_body(_, _, _, _), run_block(_, _, _)

\* the body of the argument loop of the Call arm once argument number
\* index + 1 evaluated to a: expr.parameters[index] panics past the last
\* parameter
bind_argument(a, func, arguments, idx) ==
    IF idx <= Len(arguments)
    THEN IF idx >= Len(func.parameters)
         THEN Panic(a.env, "index out of bounds")
         ELSE bind_arguments(define(a.env, func.parameters[idx + 1], a.v),
                             func, arguments, idx + 1)
    ELSE Ok(a.env, << >>)

\* the argument loop evaluating each argument in the caller's scope, the
\* parent of the call's scope
bind_arguments_in_caller(env, func, arguments, idx) ==
    IF idx >= Len(arguments) THEN Ok(env, << >>)
    ELSE Try(evaluate(arguments[idx + 1], env.parent[1]),
             LAMBDA a : bind_argument([a EXCEPT !.env = env], func, arguments, idx))

\* the argument loop of the Call arm, from argument number index + 1 on
bind_arguments(env, func, arguments, idx) ==
    IF idx >= Len(arguments) THEN Ok(env, << >>)
    ELSE Try(evaluate(arguments[idx + 1], env),
             LAMBDA a : bind_argument(a, func, arguments, idx))

\* the body loop of the Call arm, from statement number i on
run_body(env, body, i, returned_value) ==
    IF i > Len(body) THEN Ok(env, returned_value)
    ELSE IF body[i].s = "Return"
    THEN IF body[i].value # None
         THEN Try(evaluate(body[i].value[1], env),
                  LAMBDA r : run_body(r.env, body, i + 1, r.v))
         ELSE run_body(env, body, i + 1, returned_value)
    ELSE Try(execute(body[i], env),
             LAMBDA r : run_body(r.env, body, i + 1, returned_value))

\* self.exit_scope(); Ok(value)
leave(r, value) ==
    IF exit_scope(r.env) = None THEN Panic(r.env, "Cannot exit from the global scope")
    ELSE Ok(exit_scope(r.env)[1], value)

\* the Call arm binding the parameters and running the body in the caller's
\* own scope, with no enter_scope and exit_scope
call_in_caller_scope(env, func, arguments) ==
    Try(bind_arguments(env, func, arguments, 0), LAMBDA bound :
    Try(run_body(bound.env, func.body, 1, VNull), LAMBDA r :
        Ok(r.env, r.v)))

\* the outermost scope of the chain env
RECURSIVE Root(_)
Root(env) == IF env.parent = None THEN env ELSE Root(env.parent[1])

\* the Call arm making the call's scope a child of the global scope instead
\* of the scope current at the call site
call_from_global_scope(env, func, arguments) ==
    Try(bind_arguments(enter_scope(Root(env)), func, arguments, 0), LAMBDA bound :
    Try(run_body(bound.env, func.body, 1, VNull), LAMBDA r :
        Ok(env, r.v)))

\* the Call arm once the callee evaluated to the function func
call(env, func, arguments) ==
    Try(bind_arguments(enter_scope(env), func, arguments, 0), LAMBDA bound :
    Try(run_body(bound.env, func.body, 1, VNull), LAMBDA r :
        leave(r, r.v)))

\* the Call arm once the callee evaluated to c.v
call_value(c, expr) ==
    IF c.v.t = "Function" THEN call(c.env, c.v, expr.arguments)
    ELSE Try(evaluate(expr.callee, c.env),
             LAMBDA var_name : NotAFunction(var_name.env, var_name.v))

\* the Variable arm
variable_value(env, found) == IF found # None THEN Ok(env, found[1]) ELSE Ok(env, VNull)

evaluate(expr, env) ==
    CASE expr.e = "Literal" -> literal_value(env, expr.literal)
      [] expr.e = "Grouping" -> evaluate(expr.inner, env)
      [] expr.e = "Unary" ->
            Try(evaluate(expr.right, env),
                LAMBDA r : unary_value(r.env, expr.operator, r.v))
      [] expr.e = "Binary" ->
            Try(evaluate(expr.left, env), LAMBDA l :
            Try(evaluate(expr.right, l.env), LAMBDA r :
                binary(r.env, expr.operator, l.v, r.v)))
      [] expr.e = "Variable" -> variable_value(env, get(env, expr.name))
      [] expr.e = "Call" ->
            Try(evaluate(expr.callee, env), LAMBDA c : call_value(c, expr))
      [] OTHER -> Err(env, "Expression is not implemented yet")

\* the VariableDeclaration arm when initializer is None, binding Null
\* whatever can_reassign is
declare_null(env, name, can_reassign) == Ok(define(env, name, VNull), << >>)

\* the VariableDeclaration arm when initializer is None
declare_uninitialized(env, name, can_reassign) ==
    IF can_reassign THEN Ok(define(env, name, VNull), << >>)
    ELSE Err(env, "const missing initializer")

\* the statement loop of the Block arm, from statement number i on
run_block(env, stmts, i) ==
    IF i > Len(stmts) THEN Ok(env, << >>)
    ELSE Try(execute(stmts[i], env), LAMBDA r : run_block(r.env, stmts, i + 1))

execute(stmt, env) ==
    CASE stmt.s = "Expression" ->
            Try(evaluate(stmt.expr, env), LAMBDA r : Ok(r.env, << >>))
      [] stmt.s = "VariableDeclaration" ->
            IF stmt.initializer # None
            THEN Try(evaluate(stmt.initializer[1], env),
                     LAMBDA r : Ok(define(r.env, stmt.name, r.v), << >>))
            ELSE declare_uninitialized(env, stmt.name, stmt.can_reassign)
      [] stmt.s = "FunctionDeclaration" ->
            Ok(define(env, stmt.name, VFunction(stmt.parameters, stmt.body)), << >>)
      [] stmt.s = "Block" ->
            Try(run_block(enter_scope(env), stmt.statements, 1),
                LAMBDA r : leave(r, << >>))
      [] OTHER -> Err(env, "Unknown statement")

\* one iteration of interpret's for loop: the environment it leaves, and the
\* new last_value (st = "ok") or the error returned
interpret_step(stmt, env, last) ==
    IF stmt.s = "Expression"
    THEN Try(evaluate(stmt.expr, env), LAMBDA r : Ok(r.env, Some(r.v)))
    ELSE Try(execute(stmt, env), LAMBDA r : Ok(r.env, last))

(***************************************************************************)
(* Source texts                                                            *)
(***************************************************************************)
\* function add(a, b) { return a + b } add(2, 3);
SrcAdd ==
    <<"f", "u", "n", "c", "t", "i", "o", "n", " ", "a", "d", "d", "(", "a", ",", " ",
      "b", ")", " ", "{", " ", "r", "e", "t", "u", "r", "n", " ", "a", " ", "+", " ",
      "b", " ", "}", " ", "a", "d", "d", "(", "2", ",", " ", "3", ")", ";">>

\* 2 + 3 * 4
SrcPrecedence ==
    <<"2", " ", "+", " ", "3", " ", "*", " ", "4">>

\* 1 - 2 - 3
SrcChainMinus ==
    <<"1", " ", "-", " ", "2", " ", "-", " ", "3">>

\* the source text main runs: two function declarations and
\* `add(pow(2, 3), 2);`
main_source ==
    <<NL, " ", " ", " ", " ", "f", "u", "n", "c", "t", "i", "o", "n", " ", "p", "o",
      "w", "(", "a", ",", " ", "b", ")", " ", "{", NL, " ", " ", " ", " ", " ", " ",
      " ", " ", "r", "e", "t", "u", "r", "n", " ", "a", " ", "*", "*", " ", "b", NL,
      " ", " ", " ", " ", "}", NL, NL, " ", " ", " ", " ", "f", "u", "n", "c", "t",
      "i", "o", "n", " ", "a", "d", "d", "(", "a", ",", " ", "b", ")", " ", "{", NL,
      " ", " ", " ", " ", " ", " ", " ", " ", "r", "e", "t", "u", "r", "n", " ", "a",
      " ", "+", " ", "b", NL, " ", " ", " ", " ", "}", NL, " ", " ", " ", " ", " ",
      " ", " ", " ", NL, " ", " ", " ", " ", "a", "d", "d", "(", "p", "o", "w", "(",
      "2", ",", " ", "3", ")", ",", " ", "2", ")", ";", NL, " ", " ", " ", " ">>

FixedSources ==
    {
     SrcAdd,
     \* function add(a, b) { return a + b } add(2, 3)
     <<"f", "u", "n", "c", "t", "i", "o", "n", " ", "a", "d", "d", "(", "a", ",", " ",
       "b", ")", " ", "{", " ", "r", "e", "t", "u", "r", "n", " ", "a", " ", "+", " ",
       "b", " ", "}", " ", "a", "d", "d", "(", "2", ",", " ", "3", ")">>,
     \* 7;
     <<"7", ";">>,
     \* ;
     <<";">>,
     \* 7 ; 9
     <<"7", " ", ";", " ", "9">>,
     \* let x = 1 let z = 4 { let x = 2 let y = 3 } x
     <<"l", "e", "t", " ", "x", " ", "=", " ", "1", " ", "l", "e", "t", " ", "z", " ",
       "=", " ", "4", " ", "{", " ", "l", "e", "t", " ", "x", " ", "=", " ", "2", " ",
       "l", "e", "t", " ", "y", " ", "=", " ", "3", " ", "}", " ", "x">>,
     \* function f() { let x = 1 { let x = 2 { let x = 3 } } return x } f()
     <<"f", "u", "n", "c", "t", "i", "o", "n", " ", "f", "(", ")", " ", "{", " ", "l",
       "e", "t", " ", "x", " ", "=", " ", "1", " ", "{", " ", "l", "e", "t", " ", "x",
       " ", "=", " ", "2", " ", "{", " ", "l", "e", "t", " ", "x", " ", "=", " ", "3",
       " ", "}", " ", "}", " ", "r", "e", "t", "u", "r", "n", " ", "x", " ", "}", " ",
       "f", "(", ")">>,
     \* let a = 1 function f(a, b) { let c = a return c + b } f(2, 3) a
     <<"l", "e", "t", " ", "a", " ", "=", " ", "1", " ", "f", "u", "n", "c", "t", "i",
       "o", "n", " ", "f", "(", "a", ",", " ", "b", ")", " ", "{", " ", "l", "e", "t",
       " ", "c", " ", "=", " ", "a", " ", "r", "e", "t", "u", "r", "n", " ", "c", " ",
       "+", " ", "b", " ", "}", " ", "f", "(", "2", ",", " ", "3", ")", " ", "a">>,
     \* 5 / 0
     <<"5", " ", "/", " ", "0">>,
     \* 0 / 0
     <<"0", " ", "/", " ", "0">>,
     \* 5 / (2 - 2)
     <<"5", " ", "/", " ", "(", "2", " ", "-", " ", "2", ")">>,
     \* 1.5 / -0
     <<"1", ".", "5", " ", "/", " ", "-", "0">>,
     \* 6 / 4
     <<"6", " ", "/", " ", "4">>,
     \* const x;
     <<"c", "o", "n", "s", "t", " ", "x", ";">>,
     \* let a = 1 const a
     <<"l", "e", "t", " ", "a", " ", "=", " ", "1", " ", "c", "o", "n", "s", "t", " ",
       "a">>,
     \* { const x; }
     <<"{", " ", "c", "o", "n", "s", "t", " ", "x", ";", " ", "}">>,
     \* { const x }
     <<"{", " ", "c", "o", "n", "s", "t", " ", "x", " ", "}">>,
     \* function f() { const x; } f()
     <<"f", "u", "n", "c", "t", "i", "o", "n", " ", "f", "(", ")", " ", "{", " ", "c",
       "o", "n", "s", "t", " ", "x", ";", " ", "}", " ", "f", "(", ")">>,
     \* const x = 2 x
     <<"c", "o", "n", "s", "t", " ", "x", " ", "=", " ", "2", " ", "x">>,
     \* let s = "a b"\n  let n = 12.5\ns // end\n
     <<"l", "e", "t", " ", "s", " ", "=", " ", QUOTE, "a", " ", "b", QUOTE, NL, " ",
       " ", "l", "e", "t", " ", "n", " ", "=", " ", "1", "2", ".", "5", NL, "s", " ",
       "/", "/", " ", "e", "n", "d", NL>>,
     \* "a\nb" x
     <<QUOTE, "a", NL, "b", QUOTE, " ", "x">>,
     SrcPrecedence,
     SrcChainMinus,
     \* 2 * 3 + 4
     <<"2", " ", "*", " ", "3", " ", "+", " ", "4">>,
     \* 9 - 2 * 3 - 1
     <<"9", " ", "-", " ", "2", " ", "*", " ", "3", " ", "-", " ", "1">>,
     \* function f(a) { return a } f(1) * 2 + (3 - 1) ** 2
     <<"f", "u", "n", "c", "t", "i", "o", "n", " ", "f", "(", "a", ")", " ", "{", " ",
       "r", "e", "t", "u", "r", "n", " ", "a", " ", "}", " ", "f", "(", "1", ")", " ",
       "*", " ", "2", " ", "+", " ", "(", "3", " ", "-", " ", "1", ")", " ", "*", "*",
       " ", "2">>,
     \* 1 + 2 == 3
     <<"1", " ", "+", " ", "2", " ", "=", "=", " ", "3">>,
     \* function f() { return 1 return 2 } f()
     <<"f", "u", "n", "c", "t", "i", "o", "n", " ", "f", "(", ")", " ", "{", " ", "r",
       "e", "t", "u", "r", "n", " ", "1", " ", "r", "e", "t", "u", "r", "n", " ", "2",
       " ", "}", " ", "f", "(", ")">>,
     \* function f() { return 1 let x = 8 / 0 } f()
     <<"f", "u", "n", "c", "t", "i", "o", "n", " ", "f", "(", ")", " ", "{", " ", "r",
       "e", "t", "u", "r", "n", " ", "1", " ", "l", "e", "t", " ", "x", " ", "=", " ",
       "8", " ", "/", " ", "0", " ", "}", " ", "f", "(", ")">>,
     \* function f() { return; return 5 } f()
     <<"f", "u", "n", "c", "t", "i", "o", "n", " ", "f", "(", ")", " ", "{", " ", "r",
       "e", "t", "u", "r", "n", ";", " ", "r", "e", "t", "u", "r", "n", " ", "5", " ",
       "}", " ", "f", "(", ")">>,
     \* function f() { let x = 3 return x % 2 } f()
     <<"f", "u", "n", "c", "t", "i", "o", "n", " ", "f", "(", ")", " ", "{", " ", "l",
       "e", "t", " ", "x", " ", "=", " ", "3", " ", "r", "e", "t", "u", "r", "n", " ",
       "x", " ", "%", " ", "2", " ", "}", " ", "f", "(", ")">>,
     \* function f(a) { return a } f(1, 2)
     <<"f", "u", "n", "c", "t", "i", "o", "n", " ", "f", "(", "a", ")", " ", "{", " ",
       "r", "e", "t", "u", "r", "n", " ", "a", " ", "}", " ", "f", "(", "1", ",", " ",
       "2", ")">>,
     \* { let x = 1 / 0 }
     <<"{", " ", "l", "e", "t", " ", "x", " ", "=", " ", "1", " ", "/", " ", "0", " ",
       "}">>,
     \* -2 + 3
     <<"-", "2", " ", "+", " ", "3">>,
     \* !0
     <<"!", "0">>,
     \* 2 *
     <<"2", " ", "*">>,
     \* 1 & 2
     <<"1", " ", "&", " ", "2">>,
     \* 1 # 2
     <<"1", " ", "#", " ", "2">>,
     \* "ab
     <<QUOTE, "a", "b">>,
     \* 1.2.3
     <<"1", ".", "2", ".", "3">>,
     \* let g = 1 g()
     <<"l", "e", "t", " ", "g", " ", "=", " ", "1", " ", "g", "(", ")">>,
     \* let x = 1 x = 2
     <<"l", "e", "t", " ", "x", " ", "=", " ", "1", " ", "x", " ", "=", " ", "2">>,
     \* { 1
     <<"{", " ", "1">>,
     \* return 1
     <<"r", "e", "t", "u", "r", "n", " ", "1">>,
     \* let q = 5 / 0 q
     <<"l", "e", "t", " ", "q", " ", "=", " ", "5", " ", "/", " ", "0", " ", "q">>,
     \* (0 % 0) / 0
     <<"(", "0", " ", "%", " ", "0", ")", " ", "/", " ", "0">>,
     \* let name = "ab c" + 12.5 * (count - 1);
     <<"l", "e", "t", " ", "n", "a", "m", "e", " ", "=", " ", QUOTE, "a", "b", " ", "c",
       QUOTE, " ", "+", " ", "1", "2", ".", "5", " ", "*", " ", "(", "c", "o", "u", "n",
       "t", " ", "-", " ", "1", ")", ";">>,
     \* x * 2 - y
     <<"x", " ", "*", " ", "2", " ", "-", " ", "y">>,
     \* 2 ** 3 - 1
     <<"2", " ", "*", "*", " ", "3", " ", "-", " ", "1">>,
     \* function f(a, b) { return b } f(1)
     <<"f", "u", "n", "c", "t", "i", "o", "n", " ", "f", "(", "a", ",", " ", "b", ")",
       " ", "{", " ", "r", "e", "t", "u", "r", "n", " ", "b", " ", "}", " ", "f", "(",
       "1", ")">>,
     \* let b = 7 function f(a, b) { return b } f(1)
     <<"l", "e", "t", " ", "b", " ", "=", " ", "7", " ", "f", "u", "n", "c", "t", "i",
       "o", "n", " ", "f", "(", "a", ",", " ", "b", ")", " ", "{", " ", "r", "e", "t",
       "u", "r", "n", " ", "b", " ", "}", " ", "f", "(", "1", ")">>,
     \* function f(a) { return a } f(1, 2, 3)
     <<"f", "u", "n", "c", "t", "i", "o", "n", " ", "f", "(", "a", ")", " ", "{", " ",
       "r", "e", "t", "u", "r", "n", " ", "a", " ", "}", " ", "f", "(", "1", ",", " ",
       "2", ",", " ", "3", ")">>,
     \* function f() { return 4 } f(1)
     <<"f", "u", "n", "c", "t", "i", "o", "n", " ", "f", "(", ")", " ", "{", " ", "r",
       "e", "t", "u", "r", "n", " ", "4", " ", "}", " ", "f", "(", "1", ")">>,
     \* !a == b
     <<"!", "a", " ", "=", "=", " ", "b">>,
     \* -a * b
     <<"-", "a", " ", "*", " ", "b">>,
     \* !0 == 1
     <<"!", "0", " ", "=", "=", " ", "1">>,
     \* -2
     <<"-", "2">>,
     \* 6 /
     <<"6", " ", "/">>,
     \* x =
     <<"x", " ", "=">>,
     \* a | b
     <<"a", " ", "|", " ", "b">>,
     \* 1 <
     <<"1", " ", "<">>,
     \* 3 * 4
     <<"3", " ", "*", " ", "4">>,
     \* let x = 1 function f() { return x } let x = 2 f()
     <<"l", "e", "t", " ", "x", " ", "=", " ", "1", " ", "f", "u", "n", "c", "t", "i",
       "o", "n", " ", "f", "(", ")", " ", "{", " ", "r", "e", "t", "u", "r", "n", " ",
       "x", " ", "}", " ", "l", "e", "t", " ", "x", " ", "=", " ", "2", " ", "f", "(",
       ")">>,
     \* let x = 1 function f() { return x } function g() { let x = 5 return f() } g()
     <<"l", "e", "t", " ", "x", " ", "=", " ", "1", " ", "f", "u", "n", "c", "t", "i",
       "o", "n", " ", "f", "(", ")", " ", "{", " ", "r", "e", "t", "u", "r", "n", " ",
       "x", " ", "}", " ", "f", "u", "n", "c", "t", "i", "o", "n", " ", "g", "(", ")",
       " ", "{", " ", "l", "e", "t", " ", "x", " ", "=", " ", "5", " ", "r", "e", "t",
       "u", "r", "n", " ", "f", "(", ")", " ", "}", " ", "g", "(", ")">>,
     \* let x = 1 function f() { return 6 / x } { let x = 0 f() }
     <<"l", "e", "t", " ", "x", " ", "=", " ", "1", " ", "f", "u", "n", "c", "t", "i",
       "o", "n", " ", "f", "(", ")", " ", "{", " ", "r", "e", "t", "u", "r", "n", " ",
       "6", " ", "/", " ", "x", " ", "}", " ", "{", " ", "l", "e", "t", " ", "x", " ",
       "=", " ", "0", " ", "f", "(", ")", " ", "}">>,
     \* function f() { return x } let x = 3 f()
     <<"f", "u", "n", "c", "t", "i", "o", "n", " ", "f", "(", ")", " ", "{", " ", "r",
       "e", "t", "u", "r", "n", " ", "x", " ", "}", " ", "l", "e", "t", " ", "x", " ",
       "=", " ", "3", " ", "f", "(", ")">>,
     \* function f() { return x } f()
     <<"f", "u", "n", "c", "t", "i", "o", "n", " ", "f", "(", ")", " ", "{", " ", "r",
       "e", "t", "u", "r", "n", " ", "x", " ", "}", " ", "f", "(", ")">>,
     \* let a = 9 function f(a, b) { return b } f(1, a)
     <<"l", "e", "t", " ", "a", " ", "=", " ", "9", " ", "f", "u", "n", "c", "t", "i",
       "o", "n", " ", "f", "(", "a", ",", " ", "b", ")", " ", "{", " ", "r", "e", "t",
       "u", "r", "n", " ", "b", " ", "}", " ", "f", "(", "1", ",", " ", "a", ")">>,
     \* function f(a, b) { return b } f(2, a * 3)
     <<"f", "u", "n", "c", "t", "i", "o", "n", " ", "f", "(", "a", ",", " ", "b", ")",
       " ", "{", " ", "r", "e", "t", "u", "r", "n", " ", "b", " ", "}", " ", "f", "(",
       "2", ",", " ", "a", " ", "*", " ", "3", ")">>,
     \* let b = 4 function f(a, b) { return a } f(b, 5)
     <<"l", "e", "t", " ", "b", " ", "=", " ", "4", " ", "f", "u", "n", "c", "t", "i",
       "o", "n", " ", "f", "(", "a", ",", " ", "b", ")", " ", "{", " ", "r", "e", "t",
       "u", "r", "n", " ", "a", " ", "}", " ", "f", "(", "b", ",", " ", "5", ")">>,
     \* // note
     <<"/", "/", " ", "n", "o", "t", "e">>,
     \* 1 // one
     <<"1", " ", "/", "/", " ", "o", "n", "e">>,
     \* 1 + // c\n2
     <<"1", " ", "+", " ", "/", "/", " ", "c", NL, "2">>,
     \* let x = // c\n1
     <<"l", "e", "t", " ", "x", " ", "=", " ", "/", "/", " ", "c", NL, "1">>,
     \* var y // c
     <<"v", "a", "r", " ", "y", " ", "/", "/", " ", "c">>,
     \* var y\n// c\ny
     <<"v", "a", "r", " ", "y", NL, "/", "/", " ", "c", NL, "y">>,
     \* !// c
     <<"!", "/", "/", " ", "c">>,
     \* // a\n// b
     <<"/", "/", " ", "a", NL, "/", "/", " ", "b">>,
     \* { 1 // c\n}
     <<"{", " ", "1", " ", "/", "/", " ", "c", NL, "}">>,
     \* f(// c\n)
     <<"f", "(", "/", "/", " ", "c", NL, ")">>,
     \* const k // c\n
     <<"c", "o", "n", "s", "t", " ", "k", " ", "/", "/", " ", "c", NL>>,
     main_source
    }

Fragments ==
    <<
     \* let x = 1
     <<"l", "e", "t", " ", "x", " ", "=", " ", "1">>,
     \* x + 2
     <<"x", " ", "+", " ", "2">>,
     \* { let x = 3 var y; }
     <<"{", " ", "l", "e", "t", " ", "x", " ", "=", " ", "3", " ", "v", "a", "r", " ",
       "y", ";", " ", "}">>,
     \* function f(a) { let x = a * 2 return x }
     <<"f", "u", "n", "c", "t", "i", "o", "n", " ", "f", "(", "a", ")", " ", "{", " ",
       "l", "e", "t", " ", "x", " ", "=", " ", "a", " ", "*", " ", "2", " ", "r", "e",
       "t", "u", "r", "n", " ", "x", " ", "}">>,
     \* f(x)
     <<"f", "(", "x", ")">>,
     \* const y
     <<"c", "o", "n", "s", "t", " ", "y">>,
     \* x / 0
     <<"x", " ", "/", " ", "0">>,
     \* ;
     <<";">>,
     \* // note
     <<"/", "/", " ", "n", "o", "t", "e">>
    >>


\* the most statements a generated source text is made of
MaxStatements == 2

RECURSIVE Join(_)
Join(texts) ==
    IF texts = << >> THEN << >>
    ELSE IF Len(texts) = 1 THEN texts[1]
    ELSE texts[1] \o <<NL>> \o Join(Tail(texts))

\* every sequence of at most MaxStatements fragments, one per line
GeneratedSources ==
    UNION {{Join([i \in 1..n |-> Fragments[choice[i]]]) :
               choice \in [1..n -> 1..Len(Fragments)]} : n \in 0..MaxStatements}

\* the binary operators a generated chain is joined by
ChainOperators ==
    << <<"+">>, <<"-">>, <<"*">>, <<"/">>, <<"%">>, <<"=", "=">>, <<"!", "=">>,
       <<"<">>, <<"<", "=">>, <<">">>, <<">", "=">> >>

\* the operands of a generated chain, in order
ChainOperands == <<"2", "3", "4", "5", "6", "7">>

\* the most operators a generated chain holds
MaxOperators == 2

\* operand 1, then for each chosen operator " op operand"
RECURSIVE Chain(_, _)
Chain(choice, n) ==
    IF n = 0 THEN <<ChainOperands[1]>>
    ELSE Chain(choice, n - 1) \o <<" ">> \o ChainOperators[choice[n]]
             \o <<" ", ChainOperands[n + 1]>>

ChainSources ==
    UNION {{Chain(choice, n) : choice \in [1..n -> 1..Len(ChainOperators)]} :
               n \in 1..MaxOperators}

Sources == FixedSources \cup GeneratedSources \cup ChainSources

(***************************************************************************)
(* main (src/src/main.rs): tokenize, parse, interpret                      *)
(***************************************************************************)
Init ==
    /\ pc = "lex"
    /\ lexer \in {Lexer_new(source) : source \in Sources}
    /\ parser = None
    /\ statements = << >>
    /\ interpreter = None
    /\ index = 0
    /\ last_value = None
    /\ result = None
    /\ void_arm = None

\* one iteration of the loop of Lexer::tokenize
Tokenize ==
    /\ pc = "lex"
    /\ ~Lexer_is_at_end(lexer)
    /\ LET r == tokenize_step(lexer)
       IN  /\ lexer' = r.lx
           /\ IF r.panic = None
              THEN UNCHANGED <<pc, result>>
              ELSE /\ pc' = "panic"
                   /\ result' = [stage |-> "tokenize", st |-> "panic", v |-> [msg |-> r.panic[1]]]
    /\ UNCHANGED <<parser, statements, interpreter, index, last_value, void_arm>>

\* the loop of tokenize ends; main constructs the Parser on the tokens
TokenizeEnd ==
    /\ pc = "lex"
    /\ Lexer_is_at_end(lexer)
    /\ lexer' = tokenize_end(lexer)
    /\ parser' = Parser_new(lexer'.tokens)
    /\ pc' = "parse"
    /\ UNCHANGED <<statements, interpreter, index, last_value, result, void_arm>>

\* one iteration of the loop of Parser::parse
ParseStatement ==
    /\ pc = "parse"
    /\ ~Parser_is_at_end(parser)
    /\ LET r == parse_step(parser, statements)
       IN  /\ parser' = r.p
           /\ IF r.st = "ok"
              THEN /\ statements' = r.v
                   /\ UNCHANGED <<pc, result>>
              ELSE /\ pc' = "done"
                   /\ result' = [stage |-> "parse", st |-> "err", v |-> r.v]
                   /\ UNCHANGED statements
    /\ UNCHANGED <<lexer, interpreter, index, last_value, void_arm>>

\* parse returns Ok(statements); main constructs the Interpreter
ParseEnd ==
    /\ pc = "parse"
    /\ Parser_is_at_end(parser)
    /\ pc' = "run"
    /\ interpreter' = Interpreter_new
    /\ void_arm' \in VoidArms
    /\ UNCHANGED <<lexer, parser, statements, index, last_value, result>>

\* one iteration of the loop of Interpreter::interpret
InterpretStatement ==
    /\ pc = "run"
    /\ index < Len(statements)
    /\ LET r == interpret_step(statements[index + 1], interpreter.environment, last_value)
       IN  /\ interpreter' = [interpreter EXCEPT !.environment = r.env]
           /\ IF r.st = "ok"
              THEN /\ last_value' = r.v
                   /\ index' = index + 1
                   /\ UNCHANGED <<pc, result>>
              ELSE /\ pc' = IF r.st = "panic" THEN "panic" ELSE "done"
                   /\ result' = [stage |-> "interpret", st |-> r.st, v |-> r.v]
                   /\ UNCHANGED <<index, last_value>>
    /\ UNCHANGED <<lexer, parser, statements, void_arm>>

\* interpret returns Ok(last_value)
InterpretEnd ==
    /\ pc = "run"
    /\ index = Len(statements)
    /\ pc' = "done"
    /\ result' = [stage |-> "interpret", st |-> "ok", v |-> last_value]
    /\ UNCHANGED <<lexer, parser, statements, interpreter, index, last_value, void_arm>>

Next ==
    \/ Tokenize
    \/ TokenizeEnd
    \/ ParseStatement
    \/ ParseEnd
    \/ InterpretStatement
    \/ InterpretEnd

Spec == Init /\ [][Next]_vars

(***************************************************************************)
(* Properties                                                              *)
(***************************************************************************)
\* main has returned: interpret, parse or tokenize ended with a result
Finished == pc \in {"done", "panic"}

\* the statement interpret's loop is about to run
CurrentStatement == statements[index + 1]

\* interpret's loop is about to run a statement
Running == pc = "run" /\ index < Len(statements)

\* the statement the parser makes of a bare `;`
IsVoidStatement(stmt) ==
    stmt.s = "Expression" /\ stmt.expr.e = "Literal" /\ stmt.expr.literal.l = "Void"

\* C1: tokenizing, parsing and interpreting
\* `function add(a, b) { return a + b } add(2, 3);` on a fresh interpreter
\* returns the value Number 5, not an error and not 'no value'.
C1_AddReturnsFive ==
    (lexer.source = SrcAdd /\ Finished) =>
        /\ result.stage = "interpret"
        /\ result.st = "ok"
        /\ result.v = Some(VNumber(Int2F(5)))

\* C2: interpret returns the value of the last expression statement that did
\* not evaluate to Void, and 'no value' when there was none: a statement that
\* is a bare `;` neither replaces the value held so far nor causes an error,
\* any other expression statement that succeeds replaces it with its value,
\* a statement of another kind keeps it, and the value held at the end of the
\* statements is the one returned.
C2_LastNonVoidValue ==
    [][/\ Running =>
            IF IsVoidStatement(CurrentStatement)
            THEN pc' = "run" /\ last_value' = last_value
            ELSE pc' = "run" =>
                    last_value' =
                        IF CurrentStatement.s = "Expression"
                        THEN Some(evaluate(CurrentStatement.expr,
                                           interpreter.environment).v)
                        ELSE last_value
       /\ (pc = "run" /\ index = Len(statements)) =>
            result' = [stage |-> "interpret", st |-> "ok", v |-> last_value]]_vars

\* the names declared by the statements of a block, nested blocks included
RECURSIVE DeclaredIn(_)
DeclaredIn(stmts) ==
    UNION {IF stmts[i].s \in {"VariableDeclaration", "FunctionDeclaration"}
           THEN {stmts[i].name}
           ELSE IF stmts[i].s = "Block" THEN DeclaredIn(stmts[i].statements)
           ELSE {} : i \in 1..Len(stmts)}

\* C3: after a Block statement completes normally, every name declared
\* inside the block resolves as it did before the block was entered: a name
\* first declared inside is unresolved again, a shadowed outer name has
\* exactly the value it had before.
C3_BlockRestoresScope ==
    [][(Running /\ CurrentStatement.s = "Block" /\ pc' = "run") =>
            \A name \in DeclaredIn(CurrentStatement.statements) :
                get(interpreter'.environment, name) = get(interpreter.environment, name)]_vars

\* C3 witness: a block has just completed normally; one name it declared is
\* unresolved, and another it declared with a Number resolves to a different,
\* outer value.
C3_BlockExited ==
    /\ pc = "run"
    /\ index > 0
    /\ statements[index].s = "Block"
    /\ \E name \in DeclaredIn(statements[index].statements) :
            get(interpreter.environment, name) = None
    /\ \E i \in 1..Len(statements[index].statements) :
            /\ statements[index].statements[i].s = "VariableDeclaration"
            /\ statements[index].statements[i].initializer # None
            /\ statements[index].statements[i].initializer[1].e = "Literal"
            /\ get(interpreter.environment, statements[index].statements[i].name) # None
            /\ get(interpreter.environment, statements[index].statements[i].name)[1]
                    # VNumber(statements[index].statements[i].initializer[1].literal.v)

\* C4: after a function call returns normally, the caller's scope chain
\* holds exactly the bindings it held before the call; in particular every
\* parameter name of the called function resolves in the caller as it did
\* before the call.
C4_CallLeavesCallerScope ==
    [][(/\ Running
        /\ CurrentStatement.s = "Expression"
        /\ CurrentStatement.expr.e = "Call"
        /\ pc' = "run") =>
            /\ interpreter'.environment = interpreter.environment
            /\ LET func == evaluate(CurrentStatement.expr.callee, interpreter.environment).v
               IN  \A i \in 1..Len(func.parameters) :
                      get(interpreter'.environment, func.parameters[i])
                          = get(interpreter.environment, func.parameters[i])]_vars

\* C4 witness: a call with Number arguments has just returned normally; one
\* parameter name is unbound in the caller, another is bound in the caller to
\* a value other than the argument passed for it.
C4_CallReturned ==
    /\ pc = "run"
    /\ index > 0
    /\ statements[index].s = "Expression"
    /\ statements[index].expr.e = "Call"
    /\ statements[index].expr.callee.e = "Variable"
    /\ get(interpreter.environment, statements[index].expr.callee.name) # None
    /\ LET func == get(interpreter.environment, statements[index].expr.callee.name)[1]
           arguments == statements[index].expr.arguments
       IN  /\ func.t = "Function"
           /\ \E i \in 1..Len(func.parameters) :
                  get(interpreter.environment, func.parameters[i]) = None
           /\ \E i \in 1..Len(func.parameters) :
                  /\ i <= Len(arguments)
                  /\ arguments[i].e = "Literal"
                  /\ get(interpreter.environment, func.parameters[i]) # None
                  /\ get(interpreter.environment, func.parameters[i])[1]
                          # VNumber(arguments[i].literal.v)

\* the expression a top-level statement evaluates first, if any
Evaluated(stmt) ==
    IF stmt.s = "Expression" THEN Some(stmt.expr)
    ELSE IF stmt.s = "VariableDeclaration" THEN stmt.initializer
    ELSE None

\* expr is a division whose operands evaluate, in env, to a Number and to
\* the Number zero
DividesByZero(expr, env) ==
    /\ expr.e = "Binary"
    /\ expr.operator.k = "Slash"
    /\ evaluate(expr.left, env).st = "ok"
    /\ evaluate(expr.left, env).v.t = "Number"
    /\ evaluate(expr.right, evaluate(expr.left, env).env).st = "ok"
    /\ evaluate(expr.right, evaluate(expr.left, env).env).v.t = "Number"
    /\ IsFinite(evaluate(expr.right, evaluate(expr.left, env).env).v.v)
    /\ Sign(evaluate(expr.right, evaluate(expr.left, env).env).v.v) = 0

\* C5: evaluating a `/` whose right operand evaluates to the Number zero
\* returns the error 'Division by zero' for every Number left operand, never
\* a Value, and the error ends the whole interpret call.
C5_DivisionByZeroFails ==
    [][(/\ Running
        /\ Evaluated(CurrentStatement) # None
        /\ DividesByZero(Evaluated(CurrentStatement)[1], interpreter.environment)) =>
            /\ pc' = "done"
            /\ result' = [stage |-> "interpret", st |-> "err",
                          v |-> [msg |-> "Division by zero"]]
            /\ index' = index
            /\ last_value' = last_value]_vars

\* C5 witness: interpret has ended with 'Division by zero' on a division of a
\* finite nonzero Number by zero, with statements still to run after it.
C5_DividedByZero ==
    /\ pc = "done"
    /\ result.stage = "interpret"
    /\ result.st = "err"
    /\ result.v = [msg |-> "Division by zero"]
    /\ index + 1 < Len(statements)
    /\ Evaluated(CurrentStatement) # None
    /\ DividesByZero(Evaluated(CurrentStatement)[1], interpreter.environment)
    /\ LET left == evaluate(Evaluated(CurrentStatement)[1].left, interpreter.environment).v.v
       IN  IsFinite(left) /\ Sign(left) # 0

\* a `const` declaration without an initializer
ConstWithoutInitializer(stmt) ==
    stmt.s = "VariableDeclaration" /\ stmt.initializer = None /\ ~stmt.can_reassign

\* stmts and the statements of their blocks, nested blocks included
RECURSIVE InBlocks(_)
InBlocks(stmts) ==
    UNION {{stmts[i]} \cup (IF stmts[i].s = "Block" THEN InBlocks(stmts[i].statements)
                            ELSE {}) : i \in 1..Len(stmts)}

\* stmts[i] is an expression statement calling the function that stmts[j]
\* declares
Calls(stmts, i, j) ==
    /\ j < i
    /\ stmts[j].s = "FunctionDeclaration"
    /\ stmts[i].s = "Expression"
    /\ stmts[i].expr.e = "Call"
    /\ stmts[i].expr.callee.e = "Variable"
    /\ stmts[i].expr.callee.name = stmts[j].name
    /\ \A k \in (j + 1)..(i - 1) :
            ~(/\ stmts[k].s \in {"VariableDeclaration", "FunctionDeclaration"}
              /\ stmts[k].name = stmts[j].name)

\* the statements that have all been executed once stmts ran to their end:
\* stmts, their blocks, and the bodies of the functions they call directly
MustRun(stmts) ==
    InBlocks(stmts) \cup
    UNION {InBlocks(stmts[j].body) :
              j \in {j \in 1..Len(stmts) : \E i \in 1..Len(stmts) : Calls(stmts, i, j)}}

\* every statement of stmts, blocks and function bodies included
RECURSIVE AllStatements(_)
AllStatements(stmts) ==
    UNION {{stmts[i]}
           \cup (IF stmts[i].s = "Block" THEN AllStatements(stmts[i].statements) ELSE {})
           \cup (IF stmts[i].s = "FunctionDeclaration" THEN AllStatements(stmts[i].body)
                 ELSE {}) : i \in 1..Len(stmts)}

\* the program binds name by something other than a `const` without
\* initializer: another declaration, or a parameter
BoundOtherwise(name) ==
    \E s \in AllStatements(statements) :
        \/ s.s = "VariableDeclaration" /\ s.name = name /\ ~ConstWithoutInitializer(s)
        \/ s.s = "FunctionDeclaration" /\ s.name = name
        \/ s.s = "FunctionDeclaration" /\ \E i \in 1..Len(s.parameters) : s.parameters[i] = name

\* no name that only `const` declarations without initializer declare is
\* bound
ConstNeverBound ==
    interpreter # None =>
        \A s \in AllStatements(statements) :
            (ConstWithoutInitializer(s) /\ ~BoundOtherwise(s.name)) =>
                get(interpreter.environment, s.name) = None

\* C6: a `const` declaration without an initializer always fails and never
\* binds its name: executed as a top-level statement it ends interpret with
\* the error 'const missing initializer', leaving the name resolving as
\* before; a run whose statements, blocks or called functions hold one never
\* ends with Ok; and in no state is a name bound that only such
\* declarations declare.
C6_ConstWithoutInitializerFails ==
    [][/\ (Running /\ ConstWithoutInitializer(CurrentStatement)) =>
            /\ pc' = "done"
            /\ result' = [stage |-> "interpret", st |-> "err",
                          v |-> [msg |-> "const missing initializer"]]
            /\ get(interpreter'.environment, CurrentStatement.name)
                    = get(interpreter.environment, CurrentStatement.name)
       /\ (pc' = "done" /\ result'.stage = "interpret" /\ result'.st = "ok") =>
            \A s \in MustRun(statements') : ~ConstWithoutInitializer(s)
       /\ ConstNeverBound']_vars

\* C6 witness: interpret has ended with 'const missing initializer' inside a
\* block or a called function (the scope is a child scope), and the declared
\* name is unbound.
C6_ConstFailed ==
    /\ pc = "done"
    /\ result.stage = "interpret"
    /\ result.st = "err"
    /\ result.v = [msg |-> "const missing initializer"]
    /\ interpreter.environment.parent # None
    /\ \E s \in MustRun(statements) :
            /\ ConstWithoutInitializer(s)
            /\ ~BoundOtherwise(s.name)
            /\ get(interpreter.environment, s.name) = None

\* tokenize has returned its tokens
Tokenized == parser # None

\* C7: when tokenize completes, every token has
\* 0 <= start_pos <= end_pos <= length(source) and its lexeme is
\* source[start_pos..end_pos].
C7_TokenOffsets ==
    Tokenized =>
        \A i \in 1..Len(lexer.tokens) :
            /\ 0 <= lexer.tokens[i].start_pos
            /\ lexer.tokens[i].start_pos <= lexer.tokens[i].end_pos
            /\ lexer.tokens[i].end_pos <= Len(lexer.source)
            /\ lexer.tokens[i].lexeme
                   = Slice(lexer.source, lexer.tokens[i].start_pos, lexer.tokens[i].end_pos)

\* C7 witness: tokenize has completed on a source holding a string token, a
\* number token and an identifier token of several characters, none of them
\* at offset 0.
C7_TokensProduced ==
    /\ Tokenized
    /\ \A k \in {"String", "Number", "Identifier"} :
          \E i \in 1..Len(lexer.tokens) :
              /\ lexer.tokens[i].ttype.k = k
              /\ lexer.tokens[i].start_pos > 0
              /\ lexer.tokens[i].end_pos > lexer.tokens[i].start_pos + 1

\* the offsets just after the newlines before offset start, and offset 0
LineStarts(source, start) == {0} \cup {i \in 1..start : source[i] = NL}

\* 1 plus the number of newline characters before offset start
TrueLine(source, start) == Cardinality(LineStarts(source, start))

\* 1 plus the number of characters between the start of the line and
\* offset start
TrueColumn(source, start) ==
    1 + start - (CHOOSE i \in LineStarts(source, start) :
                    \A j \in LineStarts(source, start) : j <= i)

\* C8: every token carries its true source position: its line is 1 plus the
\* number of newlines before its start offset, its column 1 plus the number
\* of characters between the start of that line and its first character.
C8_TruePositions ==
    Tokenized =>
        \A i \in 1..Len(lexer.tokens) :
            /\ lexer.tokens[i].line = TrueLine(lexer.source, lexer.tokens[i].start_pos)
            /\ lexer.tokens[i].col = TrueColumn(lexer.source, lexer.tokens[i].start_pos)

BinaryOps == EqualityOps \cup ComparisonOps \cup TermOps \cup FactorOps

\* tokens is operand (operator operand)+ Eof, the operands being numbers or
\* names
IsChain(tokens) ==
    /\ Len(tokens) >= 4
    /\ Len(tokens) % 2 = 0
    /\ tokens[Len(tokens)].ttype.k = "Eof"
    /\ \A i \in 1..(Len(tokens) - 1) :
          IF i % 2 = 1 THEN tokens[i].ttype.k \in {"Number", "Identifier"}
          ELSE tokens[i].ttype.k \in BinaryOps

\* the expression an operand token denotes
Operand(token) ==
    IF token.ttype.k = "Number" THEN Literal(LitNumber(token.ttype.v))
    ELSE Variable(token.ttype.v)

\* the chain from token i on, the remainder after each operator being its
\* right operand
RECURSIVE RightNested(_, _)
RightNested(tokens, i) ==
    IF tokens[i + 1].ttype.k = "Eof" THEN Operand(tokens[i])
    ELSE Binary(Operand(tokens[i]), tokens[i + 1].ttype, RightNested(tokens, i + 2))

\* parse has returned, with statements or with an error
Parsed == Tokenized /\ (pc # "parse" \/ Parser_is_at_end(parser))

\* C9: an unparenthesised chain of operands joined by binary operators
\* parses, whatever the operators' tiers, to the one expression statement in
\* which the whole remainder of the chain is the right operand of the first
\* operator; `2 + 3 * 4` evaluates to 14 and `1 - 2 - 3` to 1 - (2 - 3) = 2.
C9_ChainsNestRight ==
    /\ (Parsed /\ IsChain(lexer.tokens)) =>
            statements = <<ExpressionStatement(RightNested(lexer.tokens, 1))>>
    /\ (Finished /\ lexer.source = SrcPrecedence) =>
            result = [stage |-> "interpret", st |-> "ok", v |-> Some(VNumber(Int2F(14)))]
    /\ (Finished /\ lexer.source = SrcChainMinus) =>
            result = [stage |-> "interpret", st |-> "ok", v |-> Some(VNumber(Int2F(2)))]

\* C9 witness: a chain of three operands has been parsed whose first operator
\* is multiplicative and whose second is additive, and the additive
\* expression is the right operand of the multiplicative one.
C9_ChainParsed ==
    /\ Parsed
    /\ IsChain(lexer.tokens)
    /\ Len(lexer.tokens) = 6
    /\ lexer.tokens[2].ttype.k \in FactorOps
    /\ lexer.tokens[4].ttype.k \in TermOps
    /\ Len(statements) = 1
    /\ statements[1].expr.e = "Binary"
    /\ statements[1].expr.operator.k \in FactorOps
    /\ statements[1].expr.right.e = "Binary"
    /\ statements[1].expr.right.operator.k \in TermOps

\* stmt is an expression statement calling, by name, a function bound in env
IsCall(stmt, env) ==
    /\ stmt.s = "Expression"
    /\ stmt.expr.e = "Call"
    /\ stmt.expr.callee.e = "Variable"
    /\ get(env, stmt.expr.callee.name) # None
    /\ get(env, stmt.expr.callee.name)[1].t = "Function"

\* the function stmt calls
Callee(stmt, env) == get(env, stmt.expr.callee.name)[1]

\* the position of the first Return at the top level of body, 0 if none
FirstReturn(body) ==
    IF \E i \in 1..Len(body) : body[i].s = "Return"
    THEN CHOOSE i \in 1..Len(body) :
            body[i].s = "Return" /\ \A j \in 1..(i - 1) : body[j].s # "Return"
    ELSE 0

\* the call's scope once the arguments are bound and the statements before
\* the first Return have run
BeforeReturn(stmt, env) ==
    Try(bind_arguments(enter_scope(env), Callee(stmt, env), stmt.expr.arguments, 0),
        LAMBDA bound : run_block(bound.env,
                                 SubSeq(Callee(stmt, env).body, 1,
                                        FirstReturn(Callee(stmt, env).body) - 1), 1))

\* what the first Return of the called function returns
FirstReturned(stmt, env) ==
    IF Callee(stmt, env).body[FirstReturn(Callee(stmt, env).body)].value = None
    THEN Ok(env, VNull)
    ELSE Try(BeforeReturn(stmt, env),
             LAMBDA r : evaluate(Callee(stmt, env).body[FirstReturn(Callee(stmt, env).body)].value[1],
                                 r.env))

\* C10: during a call, once a Return at the top level of the body has been
\* executed, no later statement of the body is executed, so none of their
\* errors occur, and the call's result is the value of that first Return
\* (Null for a bare `return`).
C10_FirstReturnEndsCall ==
    [][(/\ Running
        /\ IsCall(CurrentStatement, interpreter.environment)
        /\ FirstReturn(Callee(CurrentStatement, interpreter.environment).body) > 0
        /\ BeforeReturn(CurrentStatement, interpreter.environment).st = "ok"
        /\ FirstReturned(CurrentStatement, interpreter.environment).st = "ok") =>
            /\ pc' = "run"
            /\ last_value' = Some(FirstReturned(CurrentStatement, interpreter.environment).v)]_vars

\* every argument of the call stmt is a literal
LiteralArguments(stmt) ==
    \A i \in 1..Len(stmt.expr.arguments) :
        /\ stmt.expr.arguments[i].e = "Literal"
        /\ stmt.expr.arguments[i].literal.l \in {"Number", "String", "Boolean", "Null"}

\* the value of a literal
LiteralValue(literal) ==
    CASE literal.l = "Number" -> VNumber(literal.v)
      [] literal.l = "String" -> VString(literal.v)
      [] literal.l = "Boolean" -> VBoolean(literal.v)
      [] literal.l = "Null" -> VNull

\* the positions at which a parameter has an argument
Matched(func, arguments) ==
    {i \in 1..Len(func.parameters) : i <= Len(arguments)}

\* a child scope of env binding each parameter that has an argument to that
\* argument's value (the last one, when a name is repeated), and no other
\* name
MatchedScope(env, func, arguments) ==
    [values |->
        [name \in {func.parameters[i] : i \in Matched(func, arguments)} |->
            LiteralValue(arguments[CHOOSE i \in Matched(func, arguments) :
                /\ func.parameters[i] = name
                /\ \A j \in Matched(func, arguments) :
                      func.parameters[j] = name => j <= i].literal)],
     parent |-> Some(env)]

\* C11: a call whose argument count differs from the function's parameter
\* count does not fail because of the mismatch: the call completes with the
\* value its body yields in a scope where each parameter that has an
\* argument is bound to it, the extra arguments are ignored and the
\* unmatched parameters are unbound.
C11_ArgumentCountMismatch ==
    [][(/\ Running
        /\ IsCall(CurrentStatement, interpreter.environment)
        /\ LiteralArguments(CurrentStatement)
        /\ Len(CurrentStatement.expr.arguments)
              # Len(Callee(CurrentStatement, interpreter.environment).parameters)
        /\ run_body(MatchedScope(interpreter.environment,
                                 Callee(CurrentStatement, interpreter.environment),
                                 CurrentStatement.expr.arguments),
                    Callee(CurrentStatement, interpreter.environment).body, 1, VNull).st = "ok") =>
            /\ pc' = "run"
            /\ last_value' =
                  Some(run_body(MatchedScope(interpreter.environment,
                                             Callee(CurrentStatement, interpreter.environment),
                                             CurrentStatement.expr.arguments),
                                Callee(CurrentStatement, interpreter.environment).body,
                                1, VNull).v)]_vars

\* C12: whenever execution of a Block ends, by normal completion or because
\* a contained statement returned an error, the current scope is again the
\* scope that was current when the Block began; hence when interpret
\* returns, with a value or with an error, the current scope is the global
\* scope.
C12_ScopeRestoredOnError ==
    [][/\ (Running /\ CurrentStatement.s = "Block" /\ pc' # "panic") =>
            interpreter'.environment = interpreter.environment
       /\ (pc' = "done" /\ result'.stage = "interpret") =>
            interpreter'.environment.parent = None]_vars

\* tokens is a unary operator, an operand, a binary operator, an operand and
\* Eof
IsUnaryChain(tokens) ==
    /\ Len(tokens) = 5
    /\ tokens[1].ttype.k \in {"Minus", "Bang"}
    /\ tokens[2].ttype.k \in {"Number", "Identifier"}
    /\ tokens[3].ttype.k \in BinaryOps
    /\ tokens[4].ttype.k \in {"Number", "Identifier"}
    /\ tokens[5].ttype.k = "Eof"

\* C13: unary `-` and `!` bind tighter than every binary operator: a unary
\* operator, an operand a, a binary operator and an operand b parse to
\* Binary(Unary(operator, a), binary operator, b), and `-2 + 3` evaluates
\* to 1.
C13_UnaryBindsTighter ==
    /\ (Parsed /\ IsUnaryChain(lexer.tokens)) =>
            statements =
                <<ExpressionStatement(
                    Binary(Unary(IF lexer.tokens[1].ttype.k = "Minus" THEN "-" ELSE "!",
                                 Operand(lexer.tokens[2])),
                           lexer.tokens[3].ttype,
                           Operand(lexer.tokens[4])))>>
    /\ (Finished /\ lexer.source = <<"-", "2", " ", "+", " ", "3">>) =>
            result = [stage |-> "interpret", st |-> "ok", v |-> Some(VNumber(Int2F(1)))]

\* the characters tokenize skips
Whitespace == {" ", "\t", "\r", NL}

\* the non-end-of-input tokens whose span holds the character at offset i
TokensOver(i) ==
    {j \in 1..Len(lexer.tokens) :
        /\ lexer.tokens[j].ttype.k # "Eof"
        /\ lexer.tokens[j].start_pos <= i
        /\ i < lexer.tokens[j].end_pos}

\* C14: the lexer never silently drops a character: when tokenize
\* completes, each character that is not a space, tab, carriage return or
\* newline lies in the span of exactly one non-end-of-input token.
C14_NoCharacterDropped ==
    Tokenized =>
        \A i \in 0..(Len(lexer.source) - 1) :
            lexer.source[i + 1] \notin Whitespace => Cardinality(TokensOver(i)) = 1

(***************************************************************************)
(* Environment on its own: any sequence of with_parent, define, get and    *)
(* assign calls on the interpreter's environment.                          *)
(***************************************************************************)
\* the names and values the calls are made with
EnvNames == {<<"x">>, <<"y">>}
EnvValues == {VNumber(Int2F(1)), VNumber(Int2F(2))}

\* the most scopes a chain holds
MaxScopes == 3

\* the number of scopes of the chain env
RECURSIVE Depth(_)
Depth(env) == IF env.parent = None THEN 1 ELSE 1 + Depth(env.parent[1])

EnvInit ==
    /\ pc = "env"
    /\ interpreter = Interpreter_new
    /\ result = None
    /\ lexer = None
    /\ parser = None
    /\ statements = << >>
    /\ index = 0
    /\ last_value = None
    /\ void_arm = None

\* Environment::with_parent(self.environment.clone())
EnvWithParent ==
    /\ Depth(interpreter.environment) < MaxScopes
    /\ interpreter' = [interpreter EXCEPT !.environment = with_parent(@)]
    /\ result' = [op |-> "with_parent"]
    /\ UNCHANGED <<pc, lexer, parser, statements, index, last_value, void_arm>>

\* self.environment.define(name, value)
EnvDefine ==
    \E name \in EnvNames, value \in EnvValues :
        /\ interpreter' = [interpreter EXCEPT !.environment = define(@, name, value)]
        /\ result' = [op |-> "define", name |-> name, value |-> value]
        /\ UNCHANGED <<pc, lexer, parser, statements, index, last_value, void_arm>>

\* self.environment.get(&name)
EnvGet ==
    \E name \in EnvNames :
        /\ result' = [op |-> "get", name |-> name,
                      v |-> get(interpreter.environment, name)]
        /\ UNCHANGED <<pc, lexer, parser, statements, interpreter, index, last_value,
                       void_arm>>

\* self.environment.assign(name, value)
EnvAssign ==
    \E name \in EnvNames, value \in EnvValues :
        /\ interpreter' = [interpreter EXCEPT
                              !.environment = assign(@, name, value).env]
        /\ result' = [op |-> "assign", name |-> name, value |-> value,
                      ok |-> assign(interpreter.environment, name, value).ok]
        /\ UNCHANGED <<pc, lexer, parser, statements, index, last_value, void_arm>>

EnvNext ==
    \/ EnvWithParent
    \/ EnvDefine
    \/ EnvGet
    \/ EnvAssign

EnvSpec == EnvInit /\ [][EnvNext]_vars

\* the maps of the chain env, innermost first
RECURSIVE Scopes(_)
Scopes(env) ==
    IF env.parent = None THEN <<env.values>>
    ELSE <<env.values>> \o Scopes(env.parent[1])

\* the positions, innermost first, of the scopes of env that define name
Defining(env, name) ==
    {i \in 1..Len(Scopes(env)) : name \in DOMAIN Scopes(env)[i]}

\* the innermost of them
Innermost(env, name) ==
    CHOOSE i \in Defining(env, name) : \A j \in Defining(env, name) : i <= j

\* C15: get returns the value held by the innermost scope that defines the
\* name, and nothing when no scope defines it; assign replaces the value in
\* the innermost defining scope only, leaving every other scope and every
\* other name unchanged, and when no scope defines the name it returns an
\* error and leaves the whole chain unchanged.
C15_GetAndAssign ==
    [][/\ (pc = "env" /\ result'.op = "get") =>
            result'.v =
                IF Defining(interpreter.environment, result'.name) = {} THEN None
                ELSE Some(Scopes(interpreter.environment)
                            [Innermost(interpreter.environment, result'.name)][result'.name])
       /\ (pc = "env" /\ result'.op = "assign") =>
            IF Defining(interpreter.environment, result'.name) = {}
            THEN ~result'.ok /\ interpreter' = interpreter
            ELSE /\ result'.ok
                 /\ Len(Scopes(interpreter'.environment)) = Len(Scopes(interpreter.environment))
                 /\ \A i \in 1..Len(Scopes(interpreter.environment)) :
                       /\ DOMAIN Scopes(interpreter'.environment)[i]
                              = DOMAIN Scopes(interpreter.environment)[i]
                       /\ \A name \in DOMAIN Scopes(interpreter.environment)[i] :
                             Scopes(interpreter'.environment)[i][name] =
                                 IF /\ i = Innermost(interpreter.environment, result'.name)
                                    /\ name = result'.name
                                 THEN result'.value
                                 ELSE Scopes(interpreter.environment)[i][name]]_vars

\* C15 witness: assign has just succeeded on a name that the current scope
\* does not define and two outer scopes do; the nearer one holds the assigned
\* value, the farther one another value.
C15_AssignedInOuterScope ==
    /\ pc = "env"
    /\ result # None
    /\ result.op = "assign"
    /\ result.ok
    /\ 1 \notin Defining(interpreter.environment, result.name)
    /\ \E i \in Defining(interpreter.environment, result.name) :
          /\ i > Innermost(interpreter.environment, result.name)
          /\ Scopes(interpreter.environment)[Innermost(interpreter.environment, result.name)]
                  [result.name] = result.value
          /\ Scopes(interpreter.environment)[i][result.name] # result.value

\* body is `return name`
ReturnsName(body, name) ==
    body = <<Return(Some(Variable(name)))>>

\* expr is a call without arguments of the function named callee
CallsByName(expr, callee) == expr = Call(Variable(callee), << >>)

\* what a read of name yields in env
Read(env, name) == IF get(env, name) = None THEN VNull ELSE get(env, name)[1]

\* stmt declares name with a Number literal
DeclaresNumber(stmt, name) ==
    /\ stmt.s = "VariableDeclaration"
    /\ stmt.name = name
    /\ stmt.initializer # None
    /\ stmt.initializer[1].e = "Literal"
    /\ stmt.initializer[1].literal.l = "Number"

\* C16: names read in a function body are resolved at call time against the
\* caller's scope chain.  A call of a function whose body is `return n`
\* yields what n holds at the call site when the call is made; called from
\* another function's body that declared n = v just before, it yields v;
\* called from a block that declared n = 0, a body `return k / n` divides by
\* that block's 0.
C16_NamesResolvedAtCallTime ==
    [][/\ \A n \in DeclaredIn(statements) :
            (/\ Running
             /\ IsCall(CurrentStatement, interpreter.environment)
             /\ CurrentStatement.expr.arguments = << >>
             /\ ReturnsName(Callee(CurrentStatement, interpreter.environment).body, n)) =>
                /\ pc' = "run"
                /\ last_value' = Some(Read(interpreter.environment, n))
       /\ \A n \in DeclaredIn(statements), f \in DeclaredIn(statements) :
            (/\ Running
             /\ IsCall(CurrentStatement, interpreter.environment)
             /\ CurrentStatement.expr.arguments = << >>
             /\ Len(Callee(CurrentStatement, interpreter.environment).body) = 2
             /\ DeclaresNumber(Callee(CurrentStatement, interpreter.environment).body[1], n)
             /\ Callee(CurrentStatement, interpreter.environment).body[2].s = "Return"
             /\ Callee(CurrentStatement, interpreter.environment).body[2].value # None
             /\ CallsByName(Callee(CurrentStatement, interpreter.environment).body[2].value[1], f)
             /\ get(interpreter.environment, f) # None
             /\ get(interpreter.environment, f)[1].t = "Function"
             /\ get(interpreter.environment, f)[1].parameters = << >>
             /\ ReturnsName(get(interpreter.environment, f)[1].body, n)) =>
                /\ pc' = "run"
                /\ last_value' =
                      Some(VNumber(Callee(CurrentStatement, interpreter.environment)
                                      .body[1].initializer[1].literal.v))
       /\ \A n \in DeclaredIn(statements), f \in DeclaredIn(statements) :
            (/\ Running
             /\ CurrentStatement.s = "Block"
             /\ Len(CurrentStatement.statements) = 2
             /\ DeclaresNumber(CurrentStatement.statements[1], n)
             /\ CurrentStatement.statements[1].initializer[1].literal.v = Int2F(0)
             /\ CurrentStatement.statements[2].s = "Expression"
             /\ CallsByName(CurrentStatement.statements[2].expr, f)
             /\ get(interpreter.environment, f) # None
             /\ get(interpreter.environment, f)[1].t = "Function"
             /\ get(interpreter.environment, f)[1].parameters = << >>
             /\ Len(get(interpreter.environment, f)[1].body) = 1
             /\ get(interpreter.environment, f)[1].body[1].s = "Return"
             /\ get(interpreter.environment, f)[1].body[1].value # None
             /\ get(interpreter.environment, f)[1].body[1].value[1].e = "Binary"
             /\ get(interpreter.environment, f)[1].body[1].value[1].operator.k = "Slash"
             /\ get(interpreter.environment, f)[1].body[1].value[1].left.e = "Literal"
             /\ get(interpreter.environment, f)[1].body[1].value[1].right = Variable(n)) =>
                /\ pc' = "done"
                /\ result' = [stage |-> "interpret", st |-> "err",
                              v |-> [msg |-> "Division by zero"]]]_vars

\* C16 witness: a function whose body is `return n` was declared while n
\* held one Number, n was declared again with another, and the call made
\* after that has just yielded the second.
C16_ReadAtCallTime ==
    /\ pc = "run"
    /\ index = 4
    /\ DeclaresNumber(statements[1], statements[1].name)
    /\ statements[2].s = "FunctionDeclaration"
    /\ ReturnsName(statements[2].body, statements[1].name)
    /\ DeclaresNumber(statements[3], statements[1].name)
    /\ statements[3].initializer # statements[1].initializer
    /\ statements[4].s = "Expression"
    /\ CallsByName(statements[4].expr, statements[2].name)
    /\ last_value = Some(VNumber(statements[3].initializer[1].literal.v))

\* stmt calls a function with two parameters whose body returns the second,
\* with a Number literal and any expression as arguments
PassesSecond(stmt, env) ==
    /\ IsCall(stmt, env)
    /\ Len(Callee(stmt, env).parameters) = 2
    /\ ReturnsName(Callee(stmt, env).body, Callee(stmt, env).parameters[2])
    /\ Len(stmt.expr.arguments) = 2
    /\ stmt.expr.arguments[1].e = "Literal"
    /\ stmt.expr.arguments[1].literal.l = "Number"

\* a child scope of env in which the first parameter is bound to the first
\* argument
FirstBound(stmt, env) ==
    define(with_parent(env), Callee(stmt, env).parameters[1],
           VNumber(stmt.expr.arguments[1].literal.v))

\* C17: the argument expressions of a call are evaluated inside the callee's
\* freshly pushed scope, each after the parameters of the earlier arguments
\* are bound there: in f(e1, e2) with parameters (a, b) the value bound to b
\* is e2 evaluated in a child of the caller's scope where a holds the value
\* of e1, so a reference to a in e2 yields e1's value.
C17_ArgumentsSeeEarlierParameters ==
    [][(/\ Running
        /\ PassesSecond(CurrentStatement, interpreter.environment)
        /\ evaluate(CurrentStatement.expr.arguments[2],
                    FirstBound(CurrentStatement, interpreter.environment)).st = "ok") =>
            /\ pc' = "run"
            /\ last_value' =
                  Some(evaluate(CurrentStatement.expr.arguments[2],
                                FirstBound(CurrentStatement, interpreter.environment)).v)]_vars

\* C17 witness: a call f(v, a) of a function with parameters (a, b)
\* returning b has just yielded v, while the caller's own a holds another
\* value.
C17_SecondArgumentReadFirst ==
    /\ pc = "run"
    /\ index > 0
    /\ PassesSecond(statements[index], interpreter.environment)
    /\ statements[index].expr.arguments[2]
          = Variable(Callee(statements[index], interpreter.environment).parameters[1])
    /\ last_value = Some(VNumber(statements[index].expr.arguments[1].literal.v))
    /\ get(interpreter.environment,
           Callee(statements[index], interpreter.environment).parameters[1]) # None
    /\ Read(interpreter.environment,
            Callee(statements[index], interpreter.environment).parameters[1])
          # VNumber(statements[index].expr.arguments[1].literal.v)

\* token number i is a line comment
IsComment(i) == lexer.tokens[i].ttype.k = "LineComment"

\* token number i is the first token of its line
OwnLine(i) == i = 1 \/ lexer.tokens[i - 1].line < lexer.tokens[i].line

\* token number i follows a token after which an expression begins
AfterOperator(i) ==
    i > 1 /\ lexer.tokens[i - 1].ttype.k \in BinaryOps \cup {"Equal", "Bang"}

\* token number i directly follows the name of a variable declaration
AfterDeclaredName(i) ==
    /\ i > 2
    /\ lexer.tokens[i - 1].ttype.k = "Identifier"
    /\ lexer.tokens[i - 2].ttype.k \in {"Let", "Var", "Const"}

\* parse returned the 'Unexpected token' error of primary
UnexpectedToken(r) ==
    /\ r.stage = "parse"
    /\ r.st = "err"
    /\ r.v.msg = "Unexpected token"

\* C18, as stated: whenever a LineComment token stands where a statement or
\* an expression begins, as a comment on its own line or after an operator
\* does, parse returns an 'Unexpected token' error for the whole program.
C18_CommentFailsParse ==
    (Parsed /\ \E i \in 1..Len(lexer.tokens) :
                  IsComment(i) /\ (OwnLine(i) \/ AfterOperator(i))) =>
        (pc = "done" /\ UnexpectedToken(result))

\* C18, amended: whenever the parser begins a statement at a LineComment
\* token, parse returns the 'Unexpected token' error naming that comment; a
\* program with a comment after an operator fails to parse with that error;
\* but a LineComment token directly after the name of a variable declaration
\* is skipped: the declaration is parsed without initializer and the next
\* statement begins after the comment; so when the first comment of a
\* program stands on its own line, parse returns 'Unexpected token' unless
\* the comment directly follows a declared name.
C18_CommentFailsParseUnlessSkipped ==
    [][/\ (pc = "parse" /\ ~Parser_is_at_end(parser)
            /\ Parser_peek(parser).ttype.k = "LineComment") =>
            /\ pc' = "done"
            /\ UnexpectedToken(result')
            /\ result'.v.lexeme = Parser_peek(parser).lexeme
       /\ (pc' = "done" /\ \E i \in 1..Len(lexer.tokens) : IsComment(i) /\ AfterOperator(i)) =>
            UnexpectedToken(result')
       /\ (pc = "parse" /\ ~Parser_is_at_end(parser)
            /\ Parser_peek(parser).ttype.k \in {"Let", "Var", "Const"}
            /\ IsComment(parser.current + 3)
            /\ AfterDeclaredName(parser.current + 3)) =>
            /\ pc' = "parse"
            /\ parser'.current = parser.current + 3
            /\ statements' =
                  Append(statements,
                         VariableDeclaration(lexer.tokens[parser.current + 2].ttype.v, None,
                                             Parser_peek(parser).ttype.k # "Const"))
       /\ (Parsed' /\ \E i \in 1..Len(lexer.tokens) :
                          /\ IsComment(i)
                          /\ OwnLine(i)
                          /\ ~AfterDeclaredName(i)
                          /\ \A j \in 1..(i - 1) : ~IsComment(j)) =>
            (pc' = "done" /\ UnexpectedToken(result'))]_vars

\* C18 witness: parse has returned 'Unexpected token' naming a comment that
\* stands on its own line after complete statements.
C18_CommentRejected ==
    /\ pc = "done"
    /\ UnexpectedToken(result)
    /\ Len(statements) > 0
    /\ \E i \in 2..Len(lexer.tokens) :
          /\ IsComment(i)
          /\ OwnLine(i)
          /\ result.v.lexeme = lexer.tokens[i].lexeme

====
